---- MODULE Spec2Model ----
(***************************************************************************)
(* Company-name entity resolution: scripts/compare_market_cap_eu.py (the   *)
(* primary run) and scripts/refresh_market_cap_missing.py (the refresh     *)
(* run).                                                                   *)
(*                                                                         *)
(* A string is a sequence of characters.  A character is a one-character   *)
(* string; the control characters without an escape and the non-ASCII code *)
(* points carry a name ("VT" is U+000B, "e_acute" is U+00E9).  The empty   *)
(* string is << >>.                                                        *)
(***************************************************************************)
EXTENDS Naturals, Sequences, FiniteSets, TLC

VARIABLES
    db_json,          \* the reference dataset: the JSON array of reportsIndex.json
    existing_norm,    \* ReferenceIndex: the set of NormalizedKeys
    existing_compact, \* ReferenceIndex: the set of CompactKeys
    token_index,      \* ReferenceIndex: token -> set of NormalizedKeys
    pc,               \* position of the running script
    cand,             \* the candidate row last handed to row_exists
    ret,              \* what row_exists returned for cand
    exc,              \* the exception row_exists raised for cand, or "none"
    market_cap_csv,   \* the candidate dataset: the file Market Cap EU.csv
    missing_csv,      \* the file Market Cap EU_missing.csv
    row_i,            \* main of the primary run: position in mc_rows
    matched,          \* main of the primary run: the counter matched
    missing,          \* main of the primary run: the list missing
    anno_read,        \* what the last refresh run read from missing_csv
    log,              \* the runs and edits so far, oldest first
    strip_in,         \* strip_suffix: the token sequence handed in
    strip_out,        \* strip_suffix: what it returned for strip_in
    strip_again,      \* strip_suffix: what it returned for strip_out
    strip_t,          \* strip_suffix: its local list t
    strip_iters,      \* strip_suffix: the passes of its loop that removed tokens
    w_pc,             \* per worker: position inside row_exists
    w_row,            \* per worker: the candidate row being evaluated
    w_keys,           \* per worker: the key tokens still to look up
    w_cands,          \* per worker: the local set candidates
    w_ret,            \* per worker: what row_exists returned
    sym_in,           \* symbol_base: the ticker handed in
    sym_compare,      \* what symbol_base of compare_market_cap_eu.py returned
    sym_refresh       \* what symbol_base of refresh_market_cap_missing.py returned

matchvars == <<existing_norm, existing_compact, token_index, cand, ret, exc>>
runvars == <<market_cap_csv, missing_csv, row_i, matched, missing, anno_read, log>>
stripvars == <<strip_in, strip_out, strip_again, strip_t, strip_iters>>
parvars == <<w_pc, w_row, w_keys, w_cands, w_ret>>
symvars == <<sym_in, sym_compare, sym_refresh>>
vars == <<db_json, pc, matchvars, runvars, stripvars, parvars, symvars>>

----------------------------------------------------------------------------
(* Characters *)

LOWER ==
    <<"a","b","c","d","e","f","g","h","i","j","k","l","m",
      "n","o","p","q","r","s","t","u","v","w","x","y","z">>

UPPER ==
    <<"A","B","C","D","E","F","G","H","I","J","K","L","M",
      "N","O","P","Q","R","S","T","U","V","W","X","Y","Z">>

DIGITS == {"0","1","2","3","4","5","6","7","8","9"}

\* The characters up to U+00FF that \s matches and str.strip() removes:
\* U+0009..U+000D ("VT" is U+000B), U+001C..U+001F ("FS", "GS", "RS", "US"),
\* the space, U+0085 ("NEL") and U+00A0 ("NBSP")
WHITESPACE ==
    {"\t", "\n", "VT", "\f", "\r", "FS", "GS", "RS", "US", " ", "NEL", "NBSP"}

\* The letters outside ASCII: <<small, capital>> of U+00E9/U+00C9,
\* U+00FC/U+00DC, U+00F1/U+00D1 and U+00F8/U+00D8
CASED ==
    << <<"e_acute", "E_ACUTE">>, <<"u_uml", "U_UML">>,
       <<"n_tilde", "N_TILDE">>, <<"o_stroke", "O_STROKE">> >>

\* str.lower() on one character
Lower(c) ==
    IF \E i \in 1..26 : UPPER[i] = c
    THEN LOWER[CHOOSE i \in 1..26 : UPPER[i] = c]
    ELSE IF \E i \in 1..Len(CASED) : CASED[i][2] = c
         THEN CASED[CHOOSE i \in 1..Len(CASED) : CASED[i][2] = c][1]
         ELSE c

\* str.upper() on one character
Upper(c) ==
    IF \E i \in 1..26 : LOWER[i] = c
    THEN UPPER[CHOOSE i \in 1..26 : LOWER[i] = c]
    ELSE IF \E i \in 1..Len(CASED) : CASED[i][1] = c
         THEN CASED[CHOOSE i \in 1..Len(CASED) : CASED[i][1] = c][2]
         ELSE c

\* NFKD decomposition followed by dropping the combining marks, on one
\* character: an accented letter becomes its base letter; U+00B4 (ACUTE)
\* decomposes to a space plus a combining mark and U+00A0 (NBSP) to a space;
\* U+00F8 and U+00D8 (o_stroke, O_STROKE) have no decomposition.
NFKD_BASE ==
    << <<"e_acute", "e">>, <<"E_ACUTE", "E">>, <<"u_uml", "u">>,
       <<"U_UML", "U">>, <<"n_tilde", "n">>, <<"N_TILDE", "N">>,
       <<"ACUTE", " ">>, <<"NBSP", " ">> >>

StripDiacriticsChar(c) ==
    IF \E i \in 1..Len(NFKD_BASE) : NFKD_BASE[i][1] = c
    THEN NFKD_BASE[CHOOSE i \in 1..Len(NFKD_BASE) : NFKD_BASE[i][1] = c][2]
    ELSE c

IsAlnum(c) == c \in DIGITS \/ (\E i \in 1..26 : LOWER[i] = c)

----------------------------------------------------------------------------
(* Word tables *)

STOPWORDS ==
    { <<"a","n","d">>,
      <<"o","f">>,
      <<"t","h","e">>,
      <<"d","e">>,
      <<"l","a">>,
      <<"l","e">>,
      <<"d","i">>,
      <<"d","e","l">>,
      <<"d","e","l","l","a">>,
      <<"v","a","n">>,
      <<"v","o","n">>,
      <<"d","e","r">>,
      <<"d","e","n">>,
      <<"d","u">>,
      <<"d","a">>,
      <<"d","o","s">>,
      <<"d","a","s">>,
      <<"d","o">>,
      <<"y">>,
      <<"e","t">> }

GENERIC_TOKENS ==
    { <<"b","a","n","k">>,
      <<"b","a","n","c","o">>,
      <<"b","a","n","q","u","e">>,
      <<"i","n","s","u","r","a","n","c","e">>,
      <<"a","s","s","u","r","a","n","c","e">>,
      <<"r","e","i","n","s","u","r","a","n","c","e">>,
      <<"c","a","p","i","t","a","l">>,
      <<"f","i","n","a","n","c","i","a","l">>,
      <<"f","i","n","a","n","c","e">>,
      <<"i","n","v","e","s","t">>,
      <<"i","n","v","e","s","t","m","e","n","t","s">>,
      <<"i","n","v","e","s","t","m","e","n","t">>,
      <<"p","a","r","t","n","e","r","s">>,
      <<"p","a","r","t","n","e","r">>,
      <<"s","e","r","v","i","c","e","s">>,
      <<"s","e","r","v","i","c","e">>,
      <<"s","o","l","u","t","i","o","n","s">>,
      <<"t","e","c","h","n","o","l","o","g","y">>,
      <<"t","e","c","h","n","o","l","o","g","i","e","s">>,
      <<"s","y","s","t","e","m","s">>,
      <<"s","y","s","t","e","m">>,
      <<"i","n","t","e","r","n","a","t","i","o","n","a","l">>,
      <<"i","n","d","u","s","t","r","i","e","s">>,
      <<"i","n","d","u","s","t","r","y">>,
      <<"e","n","e","r","g","y">>,
      <<"r","e","s","o","u","r","c","e","s">>,
      <<"c","o","m","m","u","n","i","c","a","t","i","o","n","s">>,
      <<"t","e","l","e","c","o","m">>,
      <<"t","e","l","e","c","o","m","m","u","n","i","c","a","t","i","o","n","s">>,
      <<"p","h","a","r","m","a">>,
      <<"p","h","a","r","m","a","c","e","u","t","i","c","a","l">>,
      <<"h","o","l","d","i","n","g">>,
      <<"h","o","l","d","i","n","g","s">>,
      <<"g","r","o","u","p">>,
      <<"c","o","m","p","a","n","y">>,
      <<"c","o","m","p","a","n","i","e","s">>,
      <<"c","o","r","p">>,
      <<"c","o","r","p","o","r","a","t","i","o","n">> }

SUFFIX_TOKENS ==
    { <<"s","e">>,
      <<"s","a">>,
      <<"p","l","c">>,
      <<"n","v">>,
      <<"a","g">>,
      <<"s","p","a">>,
      <<"o","y","j">>,
      <<"a","b">>,
      <<"a","s">>,
      <<"a","s","a">>,
      <<"g","m","b","h">>,
      <<"k","g","a","a">>,
      <<"k","g">>,
      <<"s","a","r","l">>,
      <<"b","v">>,
      <<"c","o">>,
      <<"c","o","m","p","a","n","y">>,
      <<"c","o","r","p">>,
      <<"c","o","r","p","o","r","a","t","i","o","n">>,
      <<"i","n","c">>,
      <<"l","t","d">>,
      <<"l","i","m","i","t","e","d">>,
      <<"h","o","l","d","i","n","g">>,
      <<"h","o","l","d","i","n","g","s">>,
      <<"g","r","o","u","p">> }

\* Patterns introduced by punctuation stripping, in the order they are tried
SUFFIX_PATTERNS ==
    << <<"s","p","a">>,
       <<"s","a">>,
       <<"s","e">>,
       <<"a","s">> >>

\* U+0027, U+2019 (RSQUO), U+2018 (LSQUO), U+0060 (GRAVE), U+00B4 (ACUTE)
APOSTROPHES == {"'", "RSQUO", "LSQUO", "GRAVE", "ACUTE"}

----------------------------------------------------------------------------
(* String helpers: the Python built-ins the scripts call *)

\* "".join(seq of strings)
RECURSIVE Concat(_)
Concat(ss) == IF ss = << >> THEN << >> ELSE Head(ss) \o Concat(Tail(ss))

\* " ".join(seq of strings)
RECURSIVE JoinSpace(_)
JoinSpace(ss) ==
    IF ss = << >> THEN << >>
    ELSE IF Len(ss) = 1 THEN ss[1]
    ELSE ss[1] \o <<" ">> \o JoinSpace(Tail(ss))

\* str.lstrip() / str.rstrip() / str.strip()
RECURSIVE LStrip(_)
LStrip(s) ==
    IF s # << >> /\ Head(s) \in WHITESPACE THEN LStrip(Tail(s)) ELSE s

RECURSIVE RStrip(_)
RStrip(s) ==
    IF s # << >> /\ s[Len(s)] \in WHITESPACE
    THEN RStrip(SubSeq(s, 1, Len(s) - 1)) ELSE s

Strip(s) == RStrip(LStrip(s))

\* The part of s before the first character that is in seps (all of s when
\* there is none): str.split(sep, 1)[0] and re.split(class, s, maxsplit=1)[0]
RECURSIVE Before(_, _)
Before(s, seps) ==
    IF s = << >> \/ Head(s) \in seps THEN << >>
    ELSE <<Head(s)>> \o Before(Tail(s), seps)

\* s.split(" ") followed by dropping the empty pieces
RECURSIVE SplitSpace(_, _)
SplitSpace(s, cur) ==
    IF s = << >> THEN (IF cur = << >> THEN << >> ELSE <<cur>>)
    ELSE IF Head(s) = " "
         THEN (IF cur = << >> THEN << >> ELSE <<cur>>) \o SplitSpace(Tail(s), << >>)
         ELSE SplitSpace(Tail(s), Append(cur, Head(s)))

\* tok.isdigit()
IsDigit(tok) == tok # << >> /\ \A i \in 1..Len(tok) : tok[i] \in DIGITS

----------------------------------------------------------------------------
(* NameNormalizer: clean_tokens *)

_strip_diacritics(s) == [i \in 1..Len(s) |-> StripDiacriticsChar(s[i])]

LowerStr(s) == [i \in 1..Len(s) |-> Lower(s[i])]

UpperStr(s) == [i \in 1..Len(s) |-> Upper(s[i])]

\* s.replace("&", " and ")
RECURSIVE ReplaceAmp(_)
ReplaceAmp(s) ==
    IF s = << >> THEN << >>
    ELSE (IF Head(s) = "&" THEN <<" ","a","n","d"," ">> ELSE <<Head(s)>>)
         \o ReplaceAmp(Tail(s))

\* for a in APOSTROPHES: s = s.replace(a, "")
RemoveApostrophes(s) == SelectSeq(s, LAMBDA c : c \notin APOSTROPHES)

\* _NON_ALNUM_RE.sub(" ", s): every maximal run of characters outside
\* [0-9a-z] becomes one space
RECURSIVE NonAlnumToSpace(_, _)
NonAlnumToSpace(s, inRun) ==
    IF s = << >> THEN << >>
    ELSE IF IsAlnum(Head(s))
         THEN <<Head(s)>> \o NonAlnumToSpace(Tail(s), FALSE)
         ELSE (IF inRun THEN << >> ELSE <<" ">>) \o NonAlnumToSpace(Tail(s), TRUE)

\* _WS_RE.sub(" ", s): every maximal run of whitespace becomes one space
RECURSIVE CollapseWs(_, _)
CollapseWs(s, inRun) ==
    IF s = << >> THEN << >>
    ELSE IF Head(s) \in WHITESPACE
         THEN (IF inRun THEN << >> ELSE <<" ">>) \o CollapseWs(Tail(s), TRUE)
         ELSE <<Head(s)>> \o CollapseWs(Tail(s), FALSE)

\* clean_tokens without the final "if t" filter: "".split(" ") is [""]
clean_tokens_unfiltered(name) ==
    LET s1 == _strip_diacritics(Strip(name))
        s2 == LowerStr(s1)
        s3 == ReplaceAmp(s2)
        s4 == RemoveApostrophes(s3)
        s5 == NonAlnumToSpace(s4, FALSE)
        s6 == Strip(CollapseWs(s5, FALSE))
    IN  IF s6 = << >> THEN << << >> >> ELSE SplitSpace(s6, << >>)

clean_tokens(name) ==
    LET s1 == _strip_diacritics(Strip(name))
        s2 == LowerStr(s1)
        s3 == ReplaceAmp(s2)
        s4 == RemoveApostrophes(s3)
        s5 == NonAlnumToSpace(s4, FALSE)
        s6 == Strip(CollapseWs(s5, FALSE))
    IN  SplitSpace(s6, << >>)

----------------------------------------------------------------------------
(* SuffixStripper: strip_suffix *)

\* tuple(t[-len(pat):]) == pat, guarded by len(t) >= len(pat)
EndsWith(t, pat) ==
    /\ Len(t) >= Len(pat)
    /\ SubSeq(t, Len(t) - Len(pat) + 1, Len(t)) = pat

\* One pass of the loop body in which a trailing SUFFIX_TOKENS token sets
\* changed and stays in t
LoopBody_KeepsToken(t) ==
    IF \E i \in 1..Len(SUFFIX_PATTERNS) : EndsWith(t, SUFFIX_PATTERNS[i])
    THEN LET i == CHOOSE j \in 1..Len(SUFFIX_PATTERNS) :
                    /\ EndsWith(t, SUFFIX_PATTERNS[j])
                    /\ \A k \in 1..(j - 1) : ~EndsWith(t, SUFFIX_PATTERNS[k])
         IN  [t |-> SubSeq(t, 1, Len(t) - Len(SUFFIX_PATTERNS[i])), changed |-> TRUE]
    ELSE IF t # << >> /\ t[Len(t)] \in SUFFIX_TOKENS
         THEN [t |-> t, changed |-> TRUE]
         ELSE [t |-> t, changed |-> FALSE]

\* One pass of the loop body on a non-empty t: the list t and the flag
\* changed at the end of the pass
LoopBody(t) ==
    IF \E i \in 1..Len(SUFFIX_PATTERNS) : EndsWith(t, SUFFIX_PATTERNS[i])
    THEN LET i == CHOOSE j \in 1..Len(SUFFIX_PATTERNS) :
                    /\ EndsWith(t, SUFFIX_PATTERNS[j])
                    /\ \A k \in 1..(j - 1) : ~EndsWith(t, SUFFIX_PATTERNS[k])
         IN  [t |-> SubSeq(t, 1, Len(t) - Len(SUFFIX_PATTERNS[i])), changed |-> TRUE]
    ELSE IF t # << >> /\ t[Len(t)] \in SUFFIX_TOKENS
         THEN [t |-> SubSeq(t, 1, Len(t) - 1), changed |-> TRUE]
         ELSE [t |-> t, changed |-> FALSE]

\* One pass of the loop only: a single suffix is removed
StripLoop_OnePass(t) ==
    IF t = << >> THEN t
    ELSE IF \E i \in 1..Len(SUFFIX_PATTERNS) : EndsWith(t, SUFFIX_PATTERNS[i])
         THEN LET i == CHOOSE j \in 1..Len(SUFFIX_PATTERNS) :
                         /\ EndsWith(t, SUFFIX_PATTERNS[j])
                         /\ \A k \in 1..(j - 1) : ~EndsWith(t, SUFFIX_PATTERNS[k])
              IN  SubSeq(t, 1, Len(t) - Len(SUFFIX_PATTERNS[i]))
         ELSE IF t[Len(t)] \in SUFFIX_TOKENS
              THEN SubSeq(t, 1, Len(t) - 1)
              ELSE t

\* The loop "while t and changed": one pass removes the first pattern of
\* SUFFIX_PATTERNS that matches the tail, else a trailing SUFFIX_TOKENS token.
RECURSIVE StripLoop(_)
StripLoop(t) ==
    IF t = << >> THEN t
    ELSE IF \E i \in 1..Len(SUFFIX_PATTERNS) : EndsWith(t, SUFFIX_PATTERNS[i])
         THEN LET i == CHOOSE j \in 1..Len(SUFFIX_PATTERNS) :
                         /\ EndsWith(t, SUFFIX_PATTERNS[j])
                         /\ \A k \in 1..(j - 1) : ~EndsWith(t, SUFFIX_PATTERNS[k])
              IN  StripLoop(SubSeq(t, 1, Len(t) - Len(SUFFIX_PATTERNS[i])))
         ELSE IF t[Len(t)] \in SUFFIX_TOKENS
              THEN StripLoop(SubSeq(t, 1, Len(t) - 1))
              ELSE t

\* strip_suffix returning t where the code returns "t or original"
strip_suffix_NoFallback(tokens) ==
    IF tokens = << >> THEN << >> ELSE StripLoop(tokens)

strip_suffix(tokens) ==
    IF tokens = << >> THEN << >>
    ELSE LET t == StripLoop(tokens)
         IN  IF t # << >> THEN t ELSE tokens

----------------------------------------------------------------------------
(* KeyDeriver *)

norm_str(tokens) == JoinSpace(strip_suffix(tokens))

compact_str(tokens) == Concat(strip_suffix(tokens))

\* The acronym in capitals, as it is written ("BBVA"), while the keys of
\* the index are in lower case
RECURSIVE acronym_Upper(_)
acronym_Upper(tokens) ==
    IF tokens = << >> THEN << >>
    ELSE LET tok == Head(tokens)
         IN  (IF tok = << >> \/ IsDigit(tok) \/ tok \in STOPWORDS
              THEN << >> ELSE <<Upper(tok[1])>>) \o acronym_Upper(Tail(tokens))

\* First character of every token that is neither numeric nor a stopword,
\* taken from the tokens before suffix stripping
RECURSIVE acronym(_)
acronym(tokens) ==
    IF tokens = << >> THEN << >>
    ELSE LET tok == Head(tokens)
         IN  (IF tok = << >> \/ IsDigit(tok) \/ tok \in STOPWORDS
              THEN << >> ELSE <<tok[1]>>) \o acronym(Tail(tokens))

\* symbol_base of compare_market_cap_eu.py
symbol_base(symbol) ==
    LET s == Strip(symbol)
    IN  IF s = << >> THEN << >>
        ELSE Before(Before(s, {".", ":", "/"} \cup WHITESPACE), {"-"})

----------------------------------------------------------------------------
(* ReferenceIndex: load_existing_companies *)

\* A row of the JSON array: [kind |-> "dict", c |-> name] (the "c" field may
\* be absent), or [kind |-> "list"] for an element that is no JSON object.
HasName(row) == row.kind = "dict" /\ "c" \in DOMAIN row /\ row.c # << >>

EmptyIndex ==
    [existing_norm |-> {}, existing_compact |-> {}, token_index |-> << >>]

\* token_index[tok] = {ns}: the entry is replaced, not added to
IndexAdd_Overwrite(ti, tok, ns) ==
    IF tok \in DOMAIN ti
    THEN [ti EXCEPT ![tok] = {ns}]
    ELSE ti @@ (tok :> {ns})

\* token_index.setdefault(tok, set()).add(ns)
IndexAdd(ti, tok, ns) ==
    IF tok \in DOMAIN ti
    THEN [ti EXCEPT ![tok] = @ \cup {ns}]
    ELSE ti @@ (tok :> {ns})

RECURSIVE IndexAddAll(_, _, _)
IndexAddAll(ti, toks, ns) ==
    IF toks = << >> THEN ti
    ELSE IndexAddAll(IndexAdd(ti, Head(toks), ns), Tail(toks), ns)

\* The body of the loop over the rows of the JSON array, on one row
LoadRow(idx, row) ==
    IF ~HasName(row) THEN idx
    ELSE LET toks == clean_tokens(row.c)
             ns   == norm_str(toks)
             cs   == compact_str(toks)
         IN  [existing_norm    |-> idx.existing_norm \cup {ns},
              existing_compact |-> idx.existing_compact \cup {cs},
              token_index      |-> IndexAddAll(idx.token_index, strip_suffix(toks), ns)]

RECURSIVE LoadRows(_, _)
LoadRows(idx, data) ==
    IF data = << >> THEN idx
    ELSE LoadRows(LoadRow(idx, Head(data)), Tail(data))

load_existing_companies(data) == LoadRows(EmptyIndex, data)

----------------------------------------------------------------------------
(* MatchEngine: row_exists *)

\* Thresholds of row_exists
MinAcronymLen == 3
MinKeyTokenLen == 5
AmbiguityCap == 5

\* row.get(col, "") or "": a CSV row is a function from column names to
\* strings
RowGet(row, col) == IF col \in DOMAIN row THEN row[col] ELSE << >>

\* 1) exact (normalized) company name match
Rule1(row, en, ec, ti) ==
    LET stripped == strip_suffix(clean_tokens(RowGet(row, "Name")))
    IN  JoinSpace(stripped) \in en \/ Concat(stripped) \in ec

\* x[0] on a list: IndexError when the list is empty
Subscript0(list) == IF list = << >> THEN "IndexError" ELSE "none"

\* The test in front of a subscript [0] let through the empty list as well
SingleToken_AtMost(tokens) == Len(tokens) <= 1

\* len(stripped) == 1, the test in front of stripped[0] and sym_stripped[0]
SingleToken(tokens) == Len(tokens) = 1

\* Rule 2 with "or" for "and" in the single-token test
Rule2_Or(row, en, ec, ti) ==
    LET sym      == symbol_base(RowGet(row, "Symbol"))
        sym_toks == clean_tokens(sym)
        sym_stripped == strip_suffix(sym_toks)
    IN  /\ sym # << >>
        /\ sym_toks # << >>
        /\ \/ norm_str(sym_toks) \in en
           \/ compact_str(sym_toks) \in ec
           \/ (Len(sym_stripped) = 1 \/ sym_stripped[1] \in DOMAIN ti)

\* 2) symbol/ticker base match
Rule2(row, en, ec, ti) ==
    LET sym      == symbol_base(RowGet(row, "Symbol"))
        sym_toks == clean_tokens(sym)
        sym_stripped == strip_suffix(sym_toks)
    IN  /\ sym # << >>
        /\ sym_toks # << >>
        /\ \/ norm_str(sym_toks) \in en
           \/ compact_str(sym_toks) \in ec
           \/ (SingleToken(sym_stripped) /\ sym_stripped[1] \in DOMAIN ti)

\* Rule 3 looking the token up among the NormalizedKeys
Rule3_KeyOnly(row, en, ec, ti) ==
    LET stripped == strip_suffix(clean_tokens(RowGet(row, "Name")))
    IN  SingleToken(stripped) /\ stripped[1] \in en

\* Rule 3 asking for a token that names one reference only
Rule3_Unique(row, en, ec, ti) ==
    LET stripped == strip_suffix(clean_tokens(RowGet(row, "Name")))
    IN  /\ Len(stripped) = 1
        /\ stripped[1] \in DOMAIN ti
        /\ Cardinality(ti[stripped[1]]) = 1

\* 3) single-token containment
Rule3(row, en, ec, ti) ==
    LET stripped == strip_suffix(clean_tokens(RowGet(row, "Name")))
    IN  SingleToken(stripped) /\ stripped[1] \in DOMAIN ti

\* Rule 4 without the test len(acr) >= 3
Rule4_AnyLength(row, en, ec, ti) ==
    LET acr == acronym(clean_tokens(RowGet(row, "Name")))
    IN  acr \in en \/ acr \in DOMAIN ti

\* 4) acronym match
Rule4(row, en, ec, ti) ==
    LET acr == acronym(clean_tokens(RowGet(row, "Name")))
    IN  Len(acr) >= MinAcronymLen /\ (acr \in en \/ acr \in DOMAIN ti)

\* key_tokens without the test "t not in GENERIC_TOKENS"
KeyTokens_NoGenericTest(stripped) ==
    SelectSeq(stripped, LAMBDA t : /\ Len(t) >= MinKeyTokenLen
                                   /\ t \notin STOPWORDS)

\* key_tokens: the stripped tokens specific enough to serve as evidence
KeyTokens(stripped) ==
    SelectSeq(stripped, LAMBDA t : /\ Len(t) >= MinKeyTokenLen
                                   /\ t \notin GENERIC_TOKENS
                                   /\ t \notin STOPWORDS)

\* token_index[t] on a mapping that creates a missing entry when it is read
TokenIndexGetInsert(ti, t) ==
    [value |-> IF t \in DOMAIN ti THEN ti[t] ELSE {},
     dict  |-> IF t \in DOMAIN ti THEN ti ELSE ti @@ (t :> {})]

\* token_index.get(t, set()): the value read, and the mapping afterwards
\* (dict.get adds no entry)
TokenIndexGet(ti, t) ==
    [value |-> IF t \in DOMAIN ti THEN ti[t] ELSE {}, dict |-> ti]

\* The loop over key_tokens leaving the loop as soon as one key is collected
RECURSIVE KeyTokenLoop_BreakOnAny(_, _, _)
KeyTokenLoop_BreakOnAny(key_tokens, candidates, ti) ==
    IF key_tokens = << >> THEN [candidates |-> candidates, token_index |-> ti]
    ELSE LET got == TokenIndexGet(ti, Head(key_tokens))
             c2  == candidates \cup got.value
         IN  IF Cardinality(c2) > 0
             THEN [candidates |-> c2, token_index |-> got.dict]
             ELSE KeyTokenLoop_BreakOnAny(Tail(key_tokens), c2, got.dict)

\* The loop over key_tokens: candidates |= token_index.get(t, set()), leaving
\* the loop once more than AmbiguityCap keys are collected.  candidates is a
\* set object of its own, so the in-place union writes to no index entry.
RECURSIVE KeyTokenLoop(_, _, _)
KeyTokenLoop(key_tokens, candidates, ti) ==
    IF key_tokens = << >> THEN [candidates |-> candidates, token_index |-> ti]
    ELSE LET got == TokenIndexGet(ti, Head(key_tokens))
             c2  == candidates \cup got.value
         IN  IF Cardinality(c2) > AmbiguityCap
             THEN [candidates |-> c2, token_index |-> got.dict]
             ELSE KeyTokenLoop(Tail(key_tokens), c2, got.dict)

Rule5Run(row, ti) ==
    KeyTokenLoop(KeyTokens(strip_suffix(clean_tokens(RowGet(row, "Name")))), {}, ti)

\* 5) key-token disambiguation
Rule5(row, en, ec, ti) == Cardinality(Rule5Run(row, ti).candidates) = 1

\* The exceptions the subscripts of row_exists can raise, "none" when the
\* subscript is not evaluated or finds an element: sym_stripped[0] (rule 2)
Rule2_exc(row, en, ec) ==
    LET sym      == symbol_base(RowGet(row, "Symbol"))
        sym_toks == clean_tokens(sym)
    IN  IF /\ sym # << >>
           /\ sym_toks # << >>
           /\ norm_str(sym_toks) \notin en
           /\ compact_str(sym_toks) \notin ec
           /\ SingleToken(strip_suffix(sym_toks))
        THEN Subscript0(strip_suffix(sym_toks)) ELSE "none"

\* stripped[0] (rule 3)
Rule3_exc(row) ==
    LET stripped == strip_suffix(clean_tokens(RowGet(row, "Name")))
    IN  IF SingleToken(stripped) THEN Subscript0(stripped) ELSE "none"

\* tok[0] (acronym, rule 4), for the tokens acronym does not skip
Rule4_exc(row) ==
    LET toks == clean_tokens(RowGet(row, "Name"))
    IN  IF \E k \in 1..Len(toks) :
              /\ ~(toks[k] = << >> \/ IsDigit(toks[k]) \/ toks[k] \in STOPWORDS)
              /\ Subscript0(toks[k]) # "none"
        THEN "IndexError" ELSE "none"

\* row_exists that returns False after rule 3
row_exists_call_ThreeRules(row, en, ec, ti) ==
    IF Rule1(row, en, ec, ti)
    THEN [ret |-> TRUE, exc |-> "none", token_index |-> ti]
    ELSE IF Rule2_exc(row, en, ec) # "none"
    THEN [ret |-> FALSE, exc |-> Rule2_exc(row, en, ec), token_index |-> ti]
    ELSE IF Rule2(row, en, ec, ti)
    THEN [ret |-> TRUE, exc |-> "none", token_index |-> ti]
    ELSE IF Rule3_exc(row) # "none"
    THEN [ret |-> FALSE, exc |-> Rule3_exc(row), token_index |-> ti]
    ELSE [ret |-> Rule3(row, en, ec, ti), exc |-> "none", token_index |-> ti]

\* One call of row_exists, rule after rule: the value returned, the exception
\* raised in place of a value, and token_index as the call leaves it
row_exists_call(row, en, ec, ti) ==
    IF Rule1(row, en, ec, ti)
    THEN [ret |-> TRUE, exc |-> "none", token_index |-> ti]
    ELSE IF Rule2_exc(row, en, ec) # "none"
    THEN [ret |-> FALSE, exc |-> Rule2_exc(row, en, ec), token_index |-> ti]
    ELSE IF Rule2(row, en, ec, ti)
    THEN [ret |-> TRUE, exc |-> "none", token_index |-> ti]
    ELSE IF Rule3_exc(row) # "none"
    THEN [ret |-> FALSE, exc |-> Rule3_exc(row), token_index |-> ti]
    ELSE IF Rule3(row, en, ec, ti)
    THEN [ret |-> TRUE, exc |-> "none", token_index |-> ti]
    ELSE IF Rule4_exc(row) # "none"
    THEN [ret |-> FALSE, exc |-> Rule4_exc(row), token_index |-> ti]
    ELSE IF Rule4(row, en, ec, ti)
    THEN [ret |-> TRUE, exc |-> "none", token_index |-> ti]
    ELSE [ret |-> Rule5(row, en, ec, ti), exc |-> "none",
          token_index |-> Rule5Run(row, ti).token_index]

\* The exception a call of row_exists raises, "none" when it returns
row_exists_exc(row, en, ec, ti) == row_exists_call(row, en, ec, ti).exc

row_exists(row, en, ec, ti) == row_exists_call(row, en, ec, ti).ret

----------------------------------------------------------------------------
(* CSV files.  A file that exists holds its header (fieldnames) and its     *)
(* rows; a row is a function from the column names to strings.              *)

NoFile == [exists |-> FALSE, fieldnames |-> << >>, rows |-> << >>]

Range(s) == { s[k] : k \in 1..Len(s) }

\* csv.DictWriter(f, fieldnames, extrasaction="ignore"): the header, then of
\* every row the cells of the columns of fieldnames, "" for a column the row
\* lacks; keys outside fieldnames are dropped.  A file without columns holds
\* blank lines only, which csv.DictReader skips.
write_rows(fieldnames, rows) ==
    [exists     |-> TRUE,
     fieldnames |-> fieldnames,
     rows       |-> IF fieldnames = << >> THEN << >>
                    ELSE [k \in 1..Len(rows) |->
                            [f \in Range(fieldnames) |-> RowGet(rows[k], f)]]]

\* write_csv of refresh_market_cap_missing.py
write_csv(fieldnames, rows) == write_rows(fieldnames, rows)

\* The j-th cell of a line of a file, "" past the end of the line
RawCell(line, j) == IF j <= Len(line) THEN line[j] ELSE << >>

\* The last column of the header that bears the name f
LastPos(fieldnames, f) ==
    CHOOSE j \in 1..Len(fieldnames) :
        /\ fieldnames[j] = f
        /\ \A k \in (j + 1)..Len(fieldnames) : fieldnames[k] # f

\* The dict csv.DictReader makes of a line: one key for every column name,
\* with the cell of the last column of that name (dict(zip(...)), then
\* restval for the columns past the end of the line); None is written and
\* read like "".  The cells past the last column go under the key None,
\* which no fieldnames list holds.
DictRow(fieldnames, line) ==
    [f \in Range(fieldnames) |-> RawCell(line, LastPos(fieldnames, f))]

\* read_market_cap_rows / read_csv on a file with the given header and
\* lines (no line is blank): fieldnames and rows, and the lines as they lie
\* in the file
read_market_cap_rows(fieldnames, lines) ==
    [exists     |-> TRUE,
     fieldnames |-> fieldnames,
     rows       |-> [k \in 1..Len(lines) |-> DictRow(fieldnames, lines[k])],
     lines      |-> lines]

----------------------------------------------------------------------------
(* Primary run: main of compare_market_cap_eu.py *)

\* The loop over mc_rows from a given index state: the list missing, the
\* counter matched and token_index as the calls of row_exists leave it
RECURSIVE CompareLoop(_, _, _, _, _)
CompareLoop(rows, en, ec, ti, acc) ==
    IF rows = << >> THEN [missing |-> acc.missing, matched |-> acc.matched,
                          token_index |-> ti]
    ELSE LET call == row_exists_call(Head(rows), en, ec, ti)
         IN  CompareLoop(Tail(rows), en, ec, call.token_index,
                 IF call.ret
                 THEN [missing |-> acc.missing, matched |-> acc.matched + 1]
                 ELSE [missing |-> Append(acc.missing, Head(rows)),
                       matched |-> acc.matched])

\* The file the primary run writes
compare_main(data, mc) ==
    LET idx == load_existing_companies(data)
        run == CompareLoop(mc.rows, idx.existing_norm, idx.existing_compact,
                           idx.token_index, [missing |-> << >>, matched |-> 0])
    IN  write_rows(mc.fieldnames, run.missing)

----------------------------------------------------------------------------
(* DiffMerger: refresh_market_cap_missing.py *)

\* symbol_base of refresh_market_cap_missing.py: the separators are tried in
\* the order ".", ":", "/", " " and the first one the ticker holds is used
REFRESH_SEPS == <<".", ":", "/", " ">>

Holds(s, c) == \E k \in 1..Len(s) : s[k] = c

refresh_symbol_base(symbol) ==
    LET s0 == Strip(symbol)
        s1 == IF \E i \in 1..Len(REFRESH_SEPS) : Holds(s0, REFRESH_SEPS[i])
              THEN LET i == CHOOSE j \in 1..Len(REFRESH_SEPS) :
                              /\ Holds(s0, REFRESH_SEPS[j])
                              /\ \A k \in 1..(j - 1) : ~Holds(s0, REFRESH_SEPS[k])
                   IN  Before(s0, {REFRESH_SEPS[i]})
              ELSE s0
        s2 == IF Holds(s1, "-") THEN Before(s1, {"-"}) ELSE s1
    IN  IF s0 = << >> THEN << >> ELSE UpperStr(Strip(s2))

norm_name(name) == JoinSpace(strip_suffix(clean_tokens(name)))

row_key(row) ==
    <<norm_name(RowGet(row, "Name")), refresh_symbol_base(RowGet(row, "Symbol"))>>

\* Annotation columns: the columns of the prior file that are not columns of
\* the candidate file
ExtraCols(anno_fields, base_fields) ==
    SelectSeq(anno_fields, LAMBDA c : c # "" /\ c \notin Range(base_fields))

\* The loop over anno_rows with the last row of a key setting its annotations
RECURSIVE BuildAnnotations_LastWins(_, _, _)
BuildAnnotations_LastWins(anno_rows, extra_cols, annotations) ==
    IF anno_rows = << >> THEN annotations
    ELSE LET r == Head(anno_rows)
             k == row_key(r)
             a == [col \in Range(extra_cols) |-> RowGet(r, col)]
         IN  BuildAnnotations_LastWins(Tail(anno_rows), extra_cols,
                 IF k = << << >>, << >> >> THEN annotations
                 ELSE IF k \in DOMAIN annotations
                      THEN [annotations EXCEPT ![k] = a]
                      ELSE annotations @@ (k :> a))

\* The loop over anno_rows: the first row of a key sets its annotations; the
\* key ("", "") is skipped
RECURSIVE BuildAnnotations(_, _, _)
BuildAnnotations(anno_rows, extra_cols, annotations) ==
    IF anno_rows = << >> THEN annotations
    ELSE LET r == Head(anno_rows)
             k == row_key(r)
         IN  BuildAnnotations(Tail(anno_rows), extra_cols,
                 IF k = << << >>, << >> >> \/ k \in DOMAIN annotations
                 THEN annotations
                 ELSE annotations
                      @@ (k :> [col \in Range(extra_cols) |-> RowGet(r, col)]))

\* MergeRow giving a row whose key has no annotations those of a key with
\* the same NormalizedKey
MergeRow_NameFallback(r, extra_cols, annotations) ==
    LET k == row_key(r)
        same == { a \in DOMAIN annotations : a[1] = k[1] }
    IN  IF k \in DOMAIN annotations /\ DOMAIN annotations[k] # {}
        THEN annotations[k] @@ r
        ELSE IF same # {}
             THEN annotations[CHOOSE a \in same : TRUE] @@ r
             ELSE r @@ [col \in Range(extra_cols) |-> << >>]

\* The row written for an unmatched candidate row r: its own cells, and the
\* annotations of its key (dict.update) or "" in every annotation column the
\* row has no cell for (dict.setdefault)
MergeRow(r, extra_cols, annotations) ==
    LET k == row_key(r)
    IN  IF k \in DOMAIN annotations /\ DOMAIN annotations[k] # {}
        THEN annotations[k] @@ r
        ELSE r @@ [col \in Range(extra_cols) |-> << >>]

\* The loop over market_rows keeping a matched row that has annotations
RECURSIVE RefreshLoop_KeepAnnotated(_, _, _, _, _, _, _)
RefreshLoop_KeepAnnotated(rows, en, ec, ti, extra_cols, annotations, refreshed) ==
    IF rows = << >> THEN [refreshed |-> refreshed, token_index |-> ti]
    ELSE LET call == row_exists_call(Head(rows), en, ec, ti)
         IN  RefreshLoop_KeepAnnotated(Tail(rows), en, ec, call.token_index,
                 extra_cols, annotations,
                 IF call.ret /\ row_key(Head(rows)) \notin DOMAIN annotations
                 THEN refreshed
                 ELSE Append(refreshed, MergeRow(Head(rows), extra_cols, annotations)))

\* The loop over market_rows: matched rows are left out
RECURSIVE RefreshLoop(_, _, _, _, _, _, _)
RefreshLoop(rows, en, ec, ti, extra_cols, annotations, refreshed) ==
    IF rows = << >> THEN [refreshed |-> refreshed, token_index |-> ti]
    ELSE LET call == row_exists_call(Head(rows), en, ec, ti)
         IN  RefreshLoop(Tail(rows), en, ec, call.token_index, extra_cols,
                 annotations,
                 IF call.ret THEN refreshed
                 ELSE Append(refreshed, MergeRow(Head(rows), extra_cols, annotations)))

\* out_fields without the test "col not in out_fields"
OutFields_NoTest(out_fields, extra_cols) == out_fields \o extra_cols

\* out_fields: the base columns, then every annotation column not yet there
RECURSIVE OutFields(_, _)
OutFields(out_fields, extra_cols) ==
    IF extra_cols = << >> THEN out_fields
    ELSE OutFields(IF Head(extra_cols) \in Range(out_fields) THEN out_fields
                   ELSE Append(out_fields, Head(extra_cols)),
                   Tail(extra_cols))

\* The loop over market_rows: the last row handed to row_exists, what the
\* call returned and the exception it raised ("none" when it returned); the
\* loop ends at a call that raises
RECURSIVE RefreshLastCall(_, _, _, _, _)
RefreshLastCall(rows, en, ec, ti, last) ==
    IF rows = << >> THEN last
    ELSE LET call == row_exists_call(Head(rows), en, ec, ti)
         IN  IF call.exc # "none"
             THEN [cand |-> Head(rows), ret |-> call.ret, exc |-> call.exc]
             ELSE RefreshLastCall(Tail(rows), en, ec, call.token_index,
                                  [cand |-> Head(rows), ret |-> call.ret,
                                   exc |-> "none"])

\* main of refresh_market_cap_missing.py writing every column of the prior
\* file after the base columns
refresh_main_AllPriorColumns(data, mc, prior) ==
    LET idx         == load_existing_companies(data)
        anno_fields == IF prior.exists THEN prior.fieldnames ELSE << >>
        anno_rows   == IF prior.exists THEN prior.rows ELSE << >>
        extra_cols  == ExtraCols(anno_fields, mc.fieldnames)
        annotations == BuildAnnotations(anno_rows, extra_cols, << >>)
        run         == RefreshLoop(mc.rows, idx.existing_norm, idx.existing_compact,
                                   idx.token_index, extra_cols, annotations, << >>)
    IN  write_csv(mc.fieldnames \o anno_fields, run.refreshed)

\* main of refresh_market_cap_missing.py: the file it writes, from the
\* reference dataset, the candidate file and the prior missing file
refresh_main(data, mc, prior) ==
    LET idx         == load_existing_companies(data)
        anno_fields == IF prior.exists THEN prior.fieldnames ELSE << >>
        anno_rows   == IF prior.exists THEN prior.rows ELSE << >>
        extra_cols  == ExtraCols(anno_fields, mc.fieldnames)
        annotations == BuildAnnotations(anno_rows, extra_cols, << >>)
        run         == RefreshLoop(mc.rows, idx.existing_norm, idx.existing_compact,
                                   idx.token_index, extra_cols, annotations, << >>)
    IN  write_csv(OutFields(mc.fieldnames, extra_cols), run.refreshed)

----------------------------------------------------------------------------
(* Inputs of the match check: reference datasets and candidate rows *)

S_Holding == <<"H","o","l","d","i","n","g">>
S_BBVA == <<"B","B","V","A">>
S_Visa == <<"V","i","s","a">>
S_BancoBilbao ==
    <<"B","a","n","c","o"," ","B","i","l","b","a","o"," ","V","i",
      "z","c","a","y","a"," ","A","r","g","e","n","t","a","r","i","a">>
S_AssicurazioniGenerali ==
    <<"A","s","s","i","c","u","r","a","z","i","o",
      "n","i"," ","G","e","n","e","r","a","l","i">>
S_AlphaCapital == <<"A","l","p","h","a"," ","C","a","p","i","t","a","l">>
S_BetaCapital == <<"B","e","t","a"," ","C","a","p","i","t","a","l">>
S_Space == <<" ">>
S_Capital == <<"C","a","p","i","t","a","l">>
S_Generali == <<"G","e","n","e","r","a","l","i">>
S_BBVA_MC == <<"B","B","V","A",".","M","C">>
S_V == <<"V">>
S_DotMC == <<".","M","C">>
S_CapitalAlpha == <<"C","a","p","i","t","a","l"," ","A","l","p","h","a">>
S_GeneraliDella == S_Generali \o <<" ","D","e","l","l","a">>
S_VisaGenerali == S_Visa \o <<" ">> \o S_Generali
S_DellaRocca == <<"D","e","l","l","a"," ","R","o","c","c","a">>
S_GeneraliAlpha ==
    <<"G","e","n","e","r","a","l","i"," ","A","l","p","h","a">>

\* Rows a reference dataset is drawn from: names, a whitespace-only name, an
\* empty name, an object without "c", an element that is no object
RefPool ==
    << [kind |-> "dict", c |-> S_Holding],
       [kind |-> "dict", c |-> S_BBVA],
       [kind |-> "dict", c |-> S_Visa],
       [kind |-> "dict", c |-> S_BancoBilbao],
       [kind |-> "dict", c |-> S_AssicurazioniGenerali],
       [kind |-> "dict", c |-> S_AlphaCapital],
       [kind |-> "dict", c |-> S_BetaCapital],
       [kind |-> "dict", c |-> S_Space],
       [kind |-> "dict", c |-> << >>],
       [kind |-> "dict"],
       [kind |-> "list"] >>

\* Largest number of rows in a reference dataset
MaxRefs == 2

\* The elements of a set of numbers in increasing order
RECURSIVE SortedSeq(_)
SortedSeq(S) ==
    IF S = {} THEN << >>
    ELSE LET m == CHOOSE x \in S : \A y \in S : x <= y
         IN  <<m>> \o SortedSeq(S \ {m})

PickFrom(pool, S) == LET ix == SortedSeq(S) IN [k \in 1..Len(ix) |-> pool[ix[k]]]

\* Reference datasets: up to MaxRefs rows of RefPool, in pool order
RefDatasets ==
    { PickFrom(RefPool, S) :
        S \in { T \in SUBSET (1..Len(RefPool)) : Cardinality(T) <= MaxRefs } }

\* A reference dataset in which the token "generali" names more keys than
\* AmbiguityCap: "Generali 1 SA", "Generali 2" ... "Generali 6"
CrowdedDataset ==
    [k \in 1..(AmbiguityCap + 1) |->
        [kind |-> "dict",
         c |-> S_Generali \o <<" ", <<"1","2","3","4","5","6">>[k]>>
                 \o (IF k = 1 THEN <<" ","S","A">> ELSE << >>)]]

\* A reference dataset with a stopword of five letters ("della"), a token
\* of four ("visa", of the name "Visa Inc") and a name of two letters ("CA")
\* in the index
StopwordDataset ==
    << [kind |-> "dict", c |-> S_AssicurazioniGenerali],
       [kind |-> "dict", c |-> S_DellaRocca],
       [kind |-> "dict", c |-> S_Visa \o <<" ","I","n","c">>],
       [kind |-> "dict", c |-> <<"C","A">>] >>

\* Reference rows of the datasets the rules are studied on: names that share
\* a token, a name an acronym and a ticker stand for, a name without letters
\* and an element that is no object
RulePool ==
    << [kind |-> "dict", c |-> S_AssicurazioniGenerali],
       [kind |-> "dict", c |-> S_AlphaCapital],
       [kind |-> "dict", c |-> S_BetaCapital],
       [kind |-> "dict", c |-> S_BBVA],
       [kind |-> "dict", c |-> S_Space],
       [kind |-> "list"] >>

\* Up to MaxRefs rows of RulePool, in pool order, and the two datasets above
RuleDatasets ==
    { PickFrom(RulePool, S) :
        S \in { T \in SUBSET (1..Len(RulePool)) : Cardinality(T) <= MaxRefs } }
    \cup { CrowdedDataset, StopwordDataset }

\* A legal suffix as it is written after a name: a SUFFIX_TOKENS token in
\* capitals ("SA"), or a SUFFIX_PATTERNS pattern with dots ("S.P.A.")
RECURSIVE Dotted(_)
Dotted(pat) ==
    IF pat = << >> THEN << >> ELSE <<Head(pat), ".">> \o Dotted(Tail(pat))

LegalSuffixStrings ==
    { UpperStr(t) : t \in SUFFIX_TOKENS }
    \cup { UpperStr(Dotted(SUFFIX_PATTERNS[i])) : i \in 1..Len(SUFFIX_PATTERNS) }

WithSuffix(R, sfx) == R \o <<" ">> \o sfx

\* Positions inside a token of R: between two letters or digits
InnerPositions(R) ==
    { i \in 1..(Len(R) - 1) : IsAlnum(Lower(R[i])) /\ IsAlnum(Lower(R[i + 1])) }

\* R with a dot inserted after its i-th character
WithDot(R, i) == SubSeq(R, 1, i) \o <<".">> \o SubSeq(R, i + 1, Len(R))

RefNames(data) == { data[k].c : k \in { j \in 1..Len(data) : HasName(data[j]) } }

\* Names written like a reference name: with a legal suffix added, or with
\* punctuation inside a token
DerivedNames(data) ==
    UNION { { WithSuffix(R, sfx) : sfx \in LegalSuffixStrings }
            \cup { WithDot(R, i) : i \in InnerPositions(R) } : R \in RefNames(data) }

CandNamePool ==
    { << >>, S_Space, S_Capital, S_BBVA, S_Generali, S_BancoBilbao,
      S_GeneraliAlpha, S_CapitalAlpha, S_GeneraliDella, S_VisaGenerali }

SymbolPool == { << >>, S_BBVA_MC, S_V, S_DotMC }

\* Candidate rows: with both columns, without a Symbol column, without a Name
\* column
CandRows(data) ==
    { [Name |-> n, Symbol |-> y] : n \in CandNamePool, y \in SymbolPool }
    \cup { [Name |-> n] : n \in CandNamePool \cup DerivedNames(data) }
    \cup { [Symbol |-> y] : y \in SymbolPool }

----------------------------------------------------------------------------
(* The match check: build the index from a reference dataset, then decide   *)
(* one candidate row                                                        *)

NoRow == << >>

\* No strip_suffix call and no worker is under way
StripIdle ==
    /\ strip_in = << >> /\ strip_out = << >> /\ strip_again = << >>
    /\ strip_t = << >> /\ strip_iters = 0

SymIdle == sym_in = << >> /\ sym_compare = << >> /\ sym_refresh = << >>

WorkersIdle ==
    /\ w_pc = << >> /\ w_row = << >> /\ w_keys = << >>
    /\ w_cands = << >> /\ w_ret = << >>

InitMatch ==
    /\ db_json \in RefDatasets
    /\ existing_norm = {}
    /\ existing_compact = {}
    /\ token_index = << >>
    /\ pc = "start"
    /\ cand = NoRow
    /\ ret = FALSE
    /\ exc = "none"
    /\ market_cap_csv = NoFile
    /\ missing_csv = NoFile
    /\ row_i = 0
    /\ matched = 0
    /\ missing = << >>
    /\ anno_read = NoFile
    /\ log = << >>
    /\ StripIdle
    /\ WorkersIdle
    /\ SymIdle

\* existing_norm, existing_compact, token_index = load_existing_companies(db_json)
Load ==
    /\ pc = "start"
    /\ LET idx == load_existing_companies(db_json)
       IN  /\ existing_norm' = idx.existing_norm
           /\ existing_compact' = idx.existing_compact
           /\ token_index' = idx.token_index
    /\ pc' = "match"
    /\ UNCHANGED <<db_json, cand, ret, exc, runvars>>
    /\ UNCHANGED <<stripvars, parvars, symvars>>

\* row_exists(row, existing_norm, existing_compact, token_index)
Decide ==
    /\ pc = "match"
    /\ \E row \in CandRows(db_json) :
         LET call == row_exists_call(row, existing_norm, existing_compact, token_index)
         IN  /\ cand' = row
             /\ ret' = call.ret
             /\ exc' = call.exc
             /\ token_index' = call.token_index
    /\ pc' = "done"
    /\ UNCHANGED <<db_json, existing_norm, existing_compact, runvars>>
    /\ UNCHANGED <<stripvars, parvars, symvars>>

NextMatch == Load \/ Decide

SpecMatch == InitMatch /\ [][NextMatch]_vars

\* The match check on the datasets of RuleDatasets
InitRules ==
    /\ db_json \in RuleDatasets
    /\ existing_norm = {}
    /\ existing_compact = {}
    /\ token_index = << >>
    /\ pc = "start"
    /\ cand = NoRow
    /\ ret = FALSE
    /\ exc = "none"
    /\ market_cap_csv = NoFile
    /\ missing_csv = NoFile
    /\ row_i = 0
    /\ matched = 0
    /\ missing = << >>
    /\ anno_read = NoFile
    /\ log = << >>
    /\ StripIdle
    /\ WorkersIdle
    /\ SymIdle

SpecRules == InitRules /\ [][NextMatch]_vars

----------------------------------------------------------------------------
(* Inputs of the runs: candidate files, prior missing files *)

S_1 == <<"1">>
S_2 == <<"2">>
S_3 == <<"3">>
S_X == <<"X">>
S_V_N == <<"V",".","N">>
S_x == <<"x">>
S_y == <<"y">>

\* Candidate rows, with the join keys ("visa", "V"), ("visa", "") and
\* ("", "").  A candidate file may hold a row twice.  (OddCandFiles has a row
\* of join key ("", "X").)
RunRowPool ==
    << [Name |-> S_Visa, Symbol |-> S_V, Cap |-> S_2],
       [Name |-> S_Visa, Symbol |-> << >>, Cap |-> S_3],
       [Name |-> << >>, Symbol |-> << >>, Cap |-> S_1] >>

\* Largest number of rows in a candidate file
MaxRows == 2

RECURSIVE SeqsUpTo(_, _)
SeqsUpTo(S, n) ==
    IF n = 0 THEN { << >> }
    ELSE LET shorter == SeqsUpTo(S, n - 1)
         IN  shorter \cup { Append(q, x) : q \in shorter, x \in S }

BaseFields == <<"Name", "Symbol", "Cap">>

\* The line of a candidate row under the header BaseFields
RawLine(row) == <<row.Name, row.Symbol, row.Cap>>

\* Candidate files with another shape: a column name the header repeats; a
\* line that ends before the last column and a line that goes on after it
OddCandFiles ==
    { read_market_cap_rows(<<"Name", "Symbol", "Cap", "Cap">>,
                           << <<S_Visa, S_V, S_1, S_2>> >>),
      read_market_cap_rows(BaseFields,
                           << << << >>, << >> >>, <<S_Space, S_X, S_2, S_x>> >>) }

CandFiles ==
    { read_market_cap_rows(BaseFields, [k \in 1..Len(rows) |-> RawLine(rows[k])]) :
        rows \in SeqsUpTo(Range(RunRowPool), MaxRows) }
    \cup OddCandFiles

\* Reference datasets of the runs: none of the candidate rows is matched,
\* the rows of Visa are, every row is (the name " " puts the empty key into
\* the index)
RunRefDatasets ==
    { << >>,
      << [kind |-> "dict", c |-> S_Visa] >>,
      << [kind |-> "dict", c |-> S_Visa], [kind |-> "dict", c |-> S_Space] >> }

\* Prior missing files found at the start: none; one written by hand with
\* notes (two rows of one join key with different notes, a note on the row of
\* join key ("", ""), a note on a row no candidate file has); one with the columns in
\* another order, a column without name, a column named twice and another Cap
PriorFiles ==
    { NoFile,
      [exists |-> TRUE,
       fieldnames |-> <<"Name", "Symbol", "Cap", "Note">>,
       rows |-> << [Name |-> S_Visa, Symbol |-> S_V_N, Cap |-> S_3, Note |-> S_x],
                   [Name |-> S_Visa, Symbol |-> S_V, Cap |-> S_2, Note |-> S_y],
                   [Name |-> << >>, Symbol |-> << >>, Cap |-> S_1, Note |-> S_x],
                   [Name |-> S_BBVA, Symbol |-> S_BBVA_MC, Cap |-> S_1, Note |-> S_y] >>],
      [exists |-> TRUE,
       fieldnames |-> <<"Note", "Symbol", "", "Owner", "Name", "Note", "Cap">>,
       rows |-> << ("Note" :> S_y) @@ ("Symbol" :> S_X) @@ ("" :> S_x)
                   @@ ("Owner" :> S_x) @@ ("Name" :> << >>) @@ ("Cap" :> S_3),
                   ("Note" :> << >>) @@ ("Symbol" :> S_V) @@ ("" :> << >>)
                   @@ ("Owner" :> S_y) @@ ("Name" :> S_Visa) @@ ("Cap" :> S_3) >>] }

\* Notes a reviewer writes into the missing file
NotePool == { << >>, S_x }

\* Largest number of runs and edits in a behaviour
MaxSteps == 3

----------------------------------------------------------------------------
(* The runs: the primary run row by row, the refresh run, and the reviewer  *)
(* who annotates the missing file between runs                              *)

Init ==
    /\ db_json \in RunRefDatasets
    /\ market_cap_csv \in CandFiles
    /\ missing_csv \in PriorFiles
    /\ existing_norm = {}
    /\ existing_compact = {}
    /\ token_index = << >>
    /\ pc = "idle"
    /\ cand = NoRow
    /\ ret = FALSE
    /\ exc = "none"
    /\ row_i = 0
    /\ matched = 0
    /\ missing = << >>
    /\ anno_read = NoFile
    /\ log = << >>
    /\ StripIdle
    /\ WorkersIdle
    /\ SymIdle

\* compare main, up to the loop: the index is built, the candidate rows read
CompareStart ==
    /\ pc = "idle"
    /\ Len(log) < MaxSteps
    /\ LET idx == load_existing_companies(db_json)
       IN  /\ existing_norm' = idx.existing_norm
           /\ existing_compact' = idx.existing_compact
           /\ token_index' = idx.token_index
    /\ row_i' = 1
    /\ matched' = 0
    /\ missing' = << >>
    /\ pc' = "compare"
    /\ UNCHANGED <<db_json, cand, ret, exc, market_cap_csv, missing_csv, anno_read, log>>
    /\ UNCHANGED <<stripvars, parvars, symvars>>

\* One pass of the loop that counts the row before it is tested
CompareStep_CountAll ==
    /\ pc = "compare"
    /\ row_i <= Len(market_cap_csv.rows)
    /\ LET row  == market_cap_csv.rows[row_i]
           call == row_exists_call(row, existing_norm, existing_compact, token_index)
       IN  /\ cand' = row
           /\ ret' = call.ret
           /\ exc' = call.exc
           /\ token_index' = call.token_index
           /\ matched' = matched + 1
           /\ missing' = IF call.ret THEN missing ELSE Append(missing, row)
           /\ row_i' = row_i + 1
           /\ pc' = pc
    /\ UNCHANGED <<db_json, existing_norm, existing_compact, market_cap_csv,
                   missing_csv, anno_read, log>>
    /\ UNCHANGED <<stripvars, parvars, symvars>>

\* compare main, one pass of the loop over mc_rows
CompareStep ==
    /\ pc = "compare"
    /\ row_i <= Len(market_cap_csv.rows)
    /\ LET row  == market_cap_csv.rows[row_i]
           call == row_exists_call(row, existing_norm, existing_compact, token_index)
       IN  /\ cand' = row
           /\ ret' = call.ret
           /\ exc' = call.exc
           /\ token_index' = call.token_index
           /\ IF call.exc # "none"
              THEN \* the traceback ends the script: nothing is written
                   pc' = "idle" /\ UNCHANGED <<matched, missing, row_i>>
              ELSE /\ matched' = IF call.ret THEN matched + 1 ELSE matched
                   /\ missing' = IF call.ret THEN missing ELSE Append(missing, row)
                   /\ row_i' = row_i + 1
                   /\ pc' = pc
    /\ UNCHANGED <<db_json, existing_norm, existing_compact, market_cap_csv,
                   missing_csv, anno_read, log>>
    /\ UNCHANGED <<stripvars, parvars, symvars>>

\* compare main, after the loop: write_rows(out_csv, fieldnames, missing)
CompareWrite ==
    /\ pc = "compare"
    /\ row_i > Len(market_cap_csv.rows)
    /\ missing_csv' = write_rows(market_cap_csv.fieldnames, missing)
    /\ log' = Append(log, "compare")
    /\ pc' = "idle"
    /\ UNCHANGED <<db_json, matchvars, market_cap_csv, row_i, matched, missing,
                   anno_read>>
    /\ UNCHANGED <<stripvars, parvars, symvars>>

\* refresh main: reads the missing file and overwrites it
Refresh ==
    /\ pc = "idle"
    /\ Len(log) < MaxSteps
    /\ anno_read' = missing_csv
    /\ \E idx \in {load_existing_companies(db_json)} :
         /\ existing_norm' = idx.existing_norm
         /\ existing_compact' = idx.existing_compact
         /\ token_index' = idx.token_index
         /\ \E last \in {RefreshLastCall(market_cap_csv.rows, idx.existing_norm,
                                          idx.existing_compact, idx.token_index,
                                          [cand |-> cand, ret |-> ret, exc |-> "none"])} :
              /\ cand' = last.cand
              /\ ret' = last.ret
              /\ exc' = last.exc
              /\ IF last.exc # "none"
                 THEN \* the traceback ends the script before write_csv
                      UNCHANGED <<missing_csv, log>>
                 ELSE /\ missing_csv' = refresh_main(db_json, market_cap_csv, missing_csv)
                      /\ log' = Append(log, "refresh")
    /\ UNCHANGED <<db_json, pc, market_cap_csv, row_i, matched, missing>>
    /\ UNCHANGED <<stripvars, parvars, symvars>>

\* The reviewer goes through the missing file a run has written and writes a
\* note to every row, in a column "Note" added after the others when the file
\* has none
Annotate ==
    /\ pc = "idle"
    /\ Len(log) < MaxSteps
    /\ log # << >> /\ log[Len(log)] # "annotate"
    /\ missing_csv.exists
    /\ missing_csv.rows # << >>
    /\ \E notes \in [1..Len(missing_csv.rows) -> NotePool] :
         missing_csv' =
             [exists     |-> TRUE,
              fieldnames |-> IF "Note" \in Range(missing_csv.fieldnames)
                             THEN missing_csv.fieldnames
                             ELSE Append(missing_csv.fieldnames, "Note"),
              rows       |-> [k \in 1..Len(missing_csv.rows) |->
                                ("Note" :> notes[k]) @@ missing_csv.rows[k]]]
    /\ log' = Append(log, "annotate")
    /\ UNCHANGED <<db_json, pc, matchvars, market_cap_csv, row_i, matched, missing,
                   anno_read>>
    /\ UNCHANGED <<stripvars, parvars, symvars>>

Next == CompareStart \/ CompareStep \/ CompareWrite \/ Refresh \/ Annotate

Spec == Init /\ [][Next]_vars

----------------------------------------------------------------------------
(* strip_suffix on its own: applied to a token sequence, then to its result *)

T_s == <<"s">>
T_p == <<"p">>
T_a == <<"a">>
T_e == <<"e">>
T_sa == <<"s","a">>
T_holding == <<"h","o","l","d","i","n","g">>
T_group == <<"g","r","o","u","p">>
T_visa == <<"v","i","s","a">>

\* Tokens the sequences are made of: the letters of the suffix patterns, two
\* legal suffixes, a token SUFFIX_TOKENS lacks, and the tokens a letter is
\* joined to when the dots of "S.A." are left out
TokenVocab == { T_s, T_p, T_a, T_e, T_sa, T_holding, T_group, T_visa }

\* Largest number of tokens in a sequence
MaxTokens == 3

TokenSeqs == SeqsUpTo(TokenVocab, MaxTokens)

InitStrip ==
    /\ db_json = << >>
    /\ existing_norm = {}
    /\ existing_compact = {}
    /\ token_index = << >>
    /\ pc = "strip"
    /\ cand = NoRow
    /\ ret = FALSE
    /\ exc = "none"
    /\ market_cap_csv = NoFile
    /\ missing_csv = NoFile
    /\ row_i = 0
    /\ matched = 0
    /\ missing = << >>
    /\ anno_read = NoFile
    /\ log = << >>
    /\ strip_in \in TokenSeqs
    /\ strip_out = << >>
    /\ strip_again = << >>
    /\ strip_t = << >>
    /\ strip_iters = 0
    /\ WorkersIdle
    /\ SymIdle

\* stripped = strip_suffix(toks)
StripFirst ==
    /\ pc = "strip"
    /\ strip_out' = strip_suffix(strip_in)
    /\ pc' = "stripped"
    /\ UNCHANGED <<db_json, matchvars, runvars, strip_in, strip_again, strip_t, strip_iters,
                   parvars, symvars>>

\* strip_suffix on a sequence strip_suffix returned, as norm_str does with
\* the tokens of a name that was written from a NormalizedKey
StripSecond ==
    /\ pc = "stripped"
    /\ strip_again' = strip_suffix(strip_out)
    /\ pc' = "restripped"
    /\ UNCHANGED <<db_json, matchvars, runvars, strip_in, strip_out, strip_t, strip_iters,
                   parvars, symvars>>

NextStrip == StripFirst \/ StripSecond

SpecStrip == InitStrip /\ [][NextStrip]_vars

----------------------------------------------------------------------------
(* strip_suffix pass by pass.  pc = "strip_while" is the test of the loop    *)
(* "while t and changed" with changed = True; a pass that leaves changed     *)
(* False goes to "strip_exit", as the test does when t is empty.             *)

InitLoop ==
    /\ db_json = << >>
    /\ existing_norm = {}
    /\ existing_compact = {}
    /\ token_index = << >>
    /\ pc = "strip_call"
    /\ cand = NoRow
    /\ ret = FALSE
    /\ exc = "none"
    /\ market_cap_csv = NoFile
    /\ missing_csv = NoFile
    /\ row_i = 0
    /\ matched = 0
    /\ missing = << >>
    /\ anno_read = NoFile
    /\ log = << >>
    /\ strip_in \in TokenSeqs
    /\ strip_out = << >>
    /\ strip_again = << >>
    /\ strip_t = << >>
    /\ strip_iters = 0
    /\ WorkersIdle
    /\ SymIdle

\* t = list(tokens); if not t: return []; original = list(t); changed = True
StripEnter ==
    /\ pc = "strip_call"
    /\ strip_t' = strip_in
    /\ IF strip_in = << >>
       THEN strip_out' = << >> /\ pc' = "strip_returned"
       ELSE strip_out' = strip_out /\ pc' = "strip_while"
    /\ UNCHANGED <<db_json, matchvars, runvars, strip_in, strip_again, strip_iters,
                   parvars, symvars>>

\* One pass of the loop: a pattern or a token is cut off the end of t and
\* the loop goes on, or nothing is and the loop ends
StripPass ==
    /\ pc = "strip_while"
    /\ strip_t # << >>
    /\ LET pass == LoopBody(strip_t)
       IN  /\ strip_t' = pass.t
           /\ strip_iters' = IF pass.changed THEN strip_iters + 1 ELSE strip_iters
           /\ pc' = IF pass.changed THEN "strip_while" ELSE "strip_exit"
    /\ UNCHANGED <<db_json, matchvars, runvars, strip_in, strip_out, strip_again,
                   parvars, symvars>>

\* The test of the loop with t empty
StripWhileEnd ==
    /\ pc = "strip_while"
    /\ strip_t = << >>
    /\ pc' = "strip_exit"
    /\ UNCHANGED <<db_json, matchvars, runvars, stripvars, parvars, symvars>>

\* return t or original
StripReturn ==
    /\ pc = "strip_exit"
    /\ strip_out' = IF strip_t # << >> THEN strip_t ELSE strip_in
    /\ pc' = "strip_returned"
    /\ UNCHANGED <<db_json, matchvars, runvars, strip_in, strip_again, strip_t,
                   strip_iters, parvars, symvars>>

NextLoop == StripEnter \/ StripPass \/ StripWhileEnd \/ StripReturn

\* The interpreter goes on with the next statement as long as there is one
SpecLoop == InitLoop /\ [][NextLoop]_vars /\ WF_vars(NextLoop)

----------------------------------------------------------------------------
(* row_exists run by several workers at once: the index is built once, each  *)
(* worker evaluates one candidate row, and the steps of the workers (one     *)
(* rule, or one pass of the loop over key_tokens) interleave freely.  Every  *)
(* step reads existing_norm, existing_compact and token_index as they are    *)
(* at that moment.                                                           *)

\* Number of workers
NumWorkers == 2

Workers == 1..NumWorkers

S_Alpha == <<"A","l","p","h","a">>

\* Rows the workers evaluate: decided by rule 5 with a key token the index
\* lacks, by rule 3, by rule 4, by rule 2
ParCandRows ==
    { [Name |-> S_GeneraliAlpha],
      [Name |-> S_Alpha],
      [Name |-> S_BancoBilbao],
      [Name |-> << >>, Symbol |-> S_BBVA_MC] }

ParRefDatasets ==
    { << [kind |-> "dict", c |-> S_AssicurazioniGenerali] >>,
      << [kind |-> "dict", c |-> S_BBVA],
         [kind |-> "dict", c |-> S_AssicurazioniGenerali] >> }

InitPar ==
    /\ db_json \in ParRefDatasets
    /\ existing_norm = {}
    /\ existing_compact = {}
    /\ token_index = << >>
    /\ pc = "par_start"
    /\ cand = NoRow
    /\ ret = FALSE
    /\ exc = "none"
    /\ market_cap_csv = NoFile
    /\ missing_csv = NoFile
    /\ row_i = 0
    /\ matched = 0
    /\ missing = << >>
    /\ anno_read = NoFile
    /\ log = << >>
    /\ StripIdle
    /\ WorkersIdle
    /\ SymIdle

\* The index is built once and every worker is handed a row
ParLoad ==
    /\ pc = "par_start"
    /\ LET idx == load_existing_companies(db_json)
       IN  /\ existing_norm' = idx.existing_norm
           /\ existing_compact' = idx.existing_compact
           /\ token_index' = idx.token_index
    /\ w_row' \in [Workers -> ParCandRows]
    /\ w_pc' = [w \in Workers |-> "rule1"]
    /\ w_keys' = [w \in Workers |-> << >>]
    /\ w_cands' = [w \in Workers |-> {}]
    /\ w_ret' = [w \in Workers |-> FALSE]
    /\ pc' = "par_run"
    /\ UNCHANGED <<db_json, cand, ret, exc, runvars, stripvars, symvars>>

\* A worker returns v, or goes on to the next rule
WorkerGoes(w, fires, next) ==
    /\ w_ret' = [w_ret EXCEPT ![w] = fires]
    /\ w_pc' = [w_pc EXCEPT ![w] = IF fires THEN "done" ELSE next]

W_Rule1(w) ==
    /\ pc = "par_run" /\ w_pc[w] = "rule1"
    /\ WorkerGoes(w, Rule1(w_row[w], existing_norm, existing_compact, token_index),
                  "rule2")
    /\ UNCHANGED <<db_json, pc, matchvars, runvars, stripvars, symvars, w_row, w_keys, w_cands>>

W_Rule2(w) ==
    /\ pc = "par_run" /\ w_pc[w] = "rule2"
    /\ WorkerGoes(w, Rule2(w_row[w], existing_norm, existing_compact, token_index),
                  "rule3")
    /\ UNCHANGED <<db_json, pc, matchvars, runvars, stripvars, symvars, w_row, w_keys, w_cands>>

W_Rule3(w) ==
    /\ pc = "par_run" /\ w_pc[w] = "rule3"
    /\ WorkerGoes(w, Rule3(w_row[w], existing_norm, existing_compact, token_index),
                  "rule4")
    /\ UNCHANGED <<db_json, pc, matchvars, runvars, stripvars, symvars, w_row, w_keys, w_cands>>

\* Rule 4: when it fires the worker returns and key_tokens and candidates
\* are never assigned; when it does not, key_tokens and the empty set
\* candidates are
W_Rule4(w) ==
    /\ pc = "par_run" /\ w_pc[w] = "rule4"
    /\ WorkerGoes(w, Rule4(w_row[w], existing_norm, existing_compact, token_index),
                  "rule5")
    /\ IF Rule4(w_row[w], existing_norm, existing_compact, token_index)
       THEN UNCHANGED <<w_keys, w_cands>>
       ELSE /\ w_keys' = [w_keys EXCEPT ![w] =
                     KeyTokens(strip_suffix(clean_tokens(RowGet(w_row[w], "Name"))))]
            /\ w_cands' = [w_cands EXCEPT ![w] = {}]
    /\ UNCHANGED <<db_json, pc, matchvars, runvars, stripvars, symvars, w_row>>

\* One pass of the loop over key_tokens:
\* candidates |= token_index.get(t, set()), and the break
W_Rule5Read(w) ==
    /\ pc = "par_run" /\ w_pc[w] = "rule5" /\ w_keys[w] # << >>
    /\ LET got == TokenIndexGet(token_index, Head(w_keys[w]))
           c2  == w_cands[w] \cup got.value
       IN  /\ token_index' = got.dict
           /\ w_cands' = [w_cands EXCEPT ![w] = c2]
           /\ w_keys' = [w_keys EXCEPT ![w] =
                            IF Cardinality(c2) > AmbiguityCap THEN << >>
                            ELSE Tail(w_keys[w])]
    /\ UNCHANGED <<db_json, pc, existing_norm, existing_compact, cand, ret, exc,
                   runvars, stripvars, symvars, w_pc, w_row, w_ret>>

\* After the loop: return len(candidates) == 1
W_Rule5Decide(w) ==
    /\ pc = "par_run" /\ w_pc[w] = "rule5" /\ w_keys[w] = << >>
    /\ w_ret' = [w_ret EXCEPT ![w] = (Cardinality(w_cands[w]) = 1)]
    /\ w_pc' = [w_pc EXCEPT ![w] = "done"]
    /\ UNCHANGED <<db_json, pc, matchvars, runvars, stripvars, symvars, w_row, w_keys, w_cands>>

W1 == \E w \in Workers : W_Rule1(w)
W2 == \E w \in Workers : W_Rule2(w)
W3 == \E w \in Workers : W_Rule3(w)
W4 == \E w \in Workers : W_Rule4(w)
W5Read == \E w \in Workers : W_Rule5Read(w)
W5Decide == \E w \in Workers : W_Rule5Decide(w)

NextPar == ParLoad \/ W1 \/ W2 \/ W3 \/ W4 \/ W5Read \/ W5Decide

SpecPar == InitPar /\ [][NextPar]_vars

----------------------------------------------------------------------------
(* symbol_base of the two scripts applied to one ticker *)

\* Characters of the tickers: a letter, the separators of the two functions,
\* a tab, a line feed and the hyphen
TickerChars == { "a", ".", ":", "/", " ", "\t", "\n", "-" }

\* Largest number of characters in a ticker
MaxTicker == 4

Tickers == SeqsUpTo(TickerChars, MaxTicker)

InitSym ==
    /\ db_json = << >>
    /\ existing_norm = {}
    /\ existing_compact = {}
    /\ token_index = << >>
    /\ pc = "sym"
    /\ cand = NoRow
    /\ ret = FALSE
    /\ exc = "none"
    /\ market_cap_csv = NoFile
    /\ missing_csv = NoFile
    /\ row_i = 0
    /\ matched = 0
    /\ missing = << >>
    /\ anno_read = NoFile
    /\ log = << >>
    /\ StripIdle
    /\ WorkersIdle
    /\ sym_in \in Tickers
    /\ sym_compare = << >>
    /\ sym_refresh = << >>

\* sym = symbol_base(row.get("Symbol", "") or "") in row_exists
SymCompare ==
    /\ pc = "sym"
    /\ sym_compare' = symbol_base(sym_in)
    /\ pc' = "sym_matched"
    /\ UNCHANGED <<db_json, matchvars, runvars, stripvars, parvars, sym_in, sym_refresh>>

\* symbol_base(row.get("Symbol", "") or "") in row_key
SymRefresh ==
    /\ pc = "sym_matched"
    /\ sym_refresh' = refresh_symbol_base(sym_in)
    /\ pc' = "sym_keyed"
    /\ UNCHANGED <<db_json, matchvars, runvars, stripvars, parvars, sym_in, sym_compare>>

NextSym == SymCompare \/ SymRefresh

SpecSym == InitSym /\ [][NextSym]_vars

----------------------------------------------------------------------------
(* Claims about the match check (SpecMatch) *)

NameOf(row) == RowGet(row, "Name")
TickerOf(row) == RowGet(row, "Symbol")

\* C1: a candidate named like a reference name R with a legal suffix added is
\* decided matched, for every R, also an R made of legal-suffix tokens only.
C1_SuffixedNameMatches ==
    pc = "done" =>
        \A R \in RefNames(db_json) : \A sfx \in LegalSuffixStrings :
            (clean_tokens(R) # << >> /\ cand = [Name |-> WithSuffix(R, sfx)])
                => ret = TRUE

\* C2: a candidate named like a reference name R with punctuation inserted
\* inside a token is decided matched by the exact rule, at every position.
C2_PunctuatedNameMatchesExactly ==
    pc = "done" =>
        \A R \in RefNames(db_json) : \A i \in InnerPositions(R) :
            cand = [Name |-> WithDot(R, i)]
                => /\ ret = TRUE
                   /\ Rule1(cand, existing_norm, existing_compact, token_index)

OnlyBancoBilbao == db_json = << [kind |-> "dict", c |-> S_BancoBilbao] >>

\* C3 as claimed: with "Banco Bilbao Vizcaya Argentaria" the only reference,
\* a candidate with ticker "BBVA.MC" is decided matched whatever its name.
C3_TickerMatchesLongName ==
    (pc = "done" /\ OnlyBancoBilbao /\ TickerOf(cand) = S_BBVA_MC) => ret = TRUE

\* C3 as amended: with "Banco Bilbao Vizcaya Argentaria" the only reference,
\* the ticker "BBVA.MC" matches nothing: the symbol rule does not fire and the
\* candidate is decided as the same row without its ticker is; it is matched
\* when named "Banco Bilbao Vizcaya Argentaria" and unmatched when named
\* "BBVA" or left without a name.
C3_TickerAddsNothing ==
    (pc = "done" /\ OnlyBancoBilbao /\ TickerOf(cand) = S_BBVA_MC) =>
        /\ ~Rule2(cand, existing_norm, existing_compact, token_index)
        /\ ret = row_exists([Name |-> NameOf(cand)],
                            existing_norm, existing_compact, token_index)
        /\ (NameOf(cand) = S_BancoBilbao => ret = TRUE)
        /\ (NameOf(cand) \in {S_BBVA, << >>} => ret = FALSE)

C3_Witness ==
    /\ pc = "done" /\ OnlyBancoBilbao
    /\ cand = [Name |-> S_BBVA, Symbol |-> S_BBVA_MC]
    /\ ret = FALSE

T_capital == <<"c","a","p","i","t","a","l">>

\* The tokens of a reference name hold "capital" together with other tokens
NamesCapital(row) ==
    /\ HasName(row)
    /\ LET toks == clean_tokens(row.c)
       IN  Len(toks) >= 2 /\ \E k \in 1..Len(toks) : toks[k] = T_capital

TwoCapitalRefs ==
    \E j, k \in 1..Len(db_json) :
        j # k /\ NamesCapital(db_json[j]) /\ NamesCapital(db_json[k])

NamedCapitalNoTicker == NameOf(cand) = S_Capital /\ TickerOf(cand) = << >>

\* C4 as claimed: with two reference names that hold the token "capital", a
\* candidate without ticker named "Capital" alone is decided unmatched.
C4_GenericSoleTokenUnmatched ==
    (pc = "done" /\ TwoCapitalRefs /\ NamedCapitalNoTicker) => ret = FALSE

\* C4 as amended: with two reference names that hold the token "capital", a
\* candidate without ticker named "Capital" alone yields no key token and
\* rule 5 does not fire; row_exists still returns matched, through rule 3,
\* because "capital" is a token of the index.
C4_GenericSoleTokenMatchedByRule3 ==
    (pc = "done" /\ TwoCapitalRefs /\ NamedCapitalNoTicker) =>
        /\ KeyTokens(strip_suffix(clean_tokens(NameOf(cand)))) = << >>
        /\ ~Rule5(cand, existing_norm, existing_compact, token_index)
        /\ Rule3(cand, existing_norm, existing_compact, token_index)
        /\ ret = TRUE

C4_Witness ==
    /\ pc = "done" /\ TwoCapitalRefs /\ NamedCapitalNoTicker
    /\ Cardinality(token_index[T_capital]) = 2
    /\ ret = TRUE

\* A blank or missing name: empty or whitespace only
BlankName(row) == Strip(NameOf(row)) = << >>

\* C5 as claimed: a candidate with a blank or missing name has no tokens and
\* is decided unmatched for every reference dataset and every ticker (stated
\* here for the reference datasets that put no empty key in the index).
C5_BlankNameUnmatched ==
    (pc = "done" /\ BlankName(cand) /\ << >> \notin existing_norm) =>
        /\ clean_tokens(NameOf(cand)) = << >>
        /\ ret = FALSE

\* C5 as amended: a candidate with a blank or missing name has no tokens;
\* rules 3, 4 and 5 never fire for it, and it is decided matched exactly when
\* its ticker matches by rule 2 or the empty key is in the index (a reference
\* name without a letter or digit); otherwise it is decided unmatched.
C5_BlankNameMatchedOnlyByTickerOrEmptyKey ==
    (pc = "done" /\ BlankName(cand)) =>
        /\ clean_tokens(NameOf(cand)) = << >>
        /\ ~Rule3(cand, existing_norm, existing_compact, token_index)
        /\ ~Rule4(cand, existing_norm, existing_compact, token_index)
        /\ ~Rule5(cand, existing_norm, existing_compact, token_index)
        /\ ret = ( \/ << >> \in existing_norm
                   \/ << >> \in existing_compact
                   \/ Rule2(cand, existing_norm, existing_compact, token_index) )

C5_Witness ==
    /\ pc = "done" /\ BlankName(cand)
    /\ TickerOf(cand) = S_BBVA_MC
    /\ existing_norm # {} /\ << >> \notin existing_norm
    /\ ret = FALSE

\* A reference row whose name is missing or blank
BlankRef(row) == ~HasName(row) \/ Strip(row.c) = << >>

\* C6: a reference row whose name is missing, empty or whitespace only adds
\* nothing to the two key sets and the token index.
C6_BlankReferenceSkipped ==
    pc = "match" =>
        LET idx == load_existing_companies(
                       SelectSeq(db_json, LAMBDA r : ~BlankRef(r)))
        IN  /\ existing_norm = idx.existing_norm
            /\ existing_compact = idx.existing_compact
            /\ token_index = idx.token_index

\* C10: a call of row_exists leaves the two key sets and the token index as
\* load_existing_companies returned them, also when rule 5 has run.
C10_IndexReadOnly ==
    pc = "done" =>
        LET idx == load_existing_companies(db_json)
        IN  /\ existing_norm = idx.existing_norm
            /\ existing_compact = idx.existing_compact
            /\ token_index = idx.token_index

\* Rule 5 ran over a key token the index holds and one it does not hold
C10_Witness ==
    /\ pc = "done"
    /\ ~Rule1(cand, existing_norm, existing_compact, token_index)
    /\ ~Rule2(cand, existing_norm, existing_compact, token_index)
    /\ ~Rule3(cand, existing_norm, existing_compact, token_index)
    /\ ~Rule4(cand, existing_norm, existing_compact, token_index)
    /\ LET kt == KeyTokens(strip_suffix(clean_tokens(NameOf(cand))))
       IN  /\ \E k \in 1..Len(kt) : kt[k] \in DOMAIN token_index
           /\ \E k \in 1..Len(kt) : kt[k] \notin DOMAIN token_index
    /\ ret = TRUE

T_generali == <<"g","e","n","e","r","a","l","i">>

\* "Assicurazioni Generali" is the only reference name with the token
\* "generali"
OnlyAssicurazioniHoldsGenerali ==
    /\ S_AssicurazioniGenerali \in RefNames(db_json)
    /\ \A R \in RefNames(db_json) \ {S_AssicurazioniGenerali} :
          T_generali \notin Range(clean_tokens(R))

\* C14: with "Assicurazioni Generali" the only reference name that holds the
\* token "generali", a candidate without ticker named "Generali" is decided
\* matched, and rule 3 (single-token containment) is the rule that decides.
C14_GeneraliMatchesByContainment ==
    (/\ pc = "done" /\ OnlyAssicurazioniHoldsGenerali
     /\ NameOf(cand) = S_Generali /\ TickerOf(cand) = << >>) =>
        /\ ret = TRUE
        /\ ~Rule1(cand, existing_norm, existing_compact, token_index)
        /\ ~Rule2(cand, existing_norm, existing_compact, token_index)
        /\ Rule3(cand, existing_norm, existing_compact, token_index)

\* "Generali" was decided against "Assicurazioni Generali" and another name
C14_Witness ==
    /\ pc = "done" /\ OnlyAssicurazioniHoldsGenerali
    /\ Len(db_json) = 2
    /\ cand = [Name |-> S_Generali]
    /\ token_index[T_generali] = {LowerStr(S_AssicurazioniGenerali)}
    /\ ret = TRUE

\* C15: with a reference named "BBVA", a candidate without ticker named
\* "Banco Bilbao Vizcaya Argentaria" is matched and the acronym of its
\* unstripped tokens is what matches (rule 4; no rule before it fires unless
\* the long name is a reference name too), and a candidate with ticker
\* "BBVA.MC" is matched by the symbol rule (rule 2) whatever its name.
C15_DocumentedDirection ==
    (pc = "done" /\ S_BBVA \in RefNames(db_json)) =>
        /\ (NameOf(cand) = S_BancoBilbao /\ TickerOf(cand) = << >>) =>
              /\ ret = TRUE
              /\ acronym(clean_tokens(NameOf(cand))) = LowerStr(S_BBVA)
              /\ Rule4(cand, existing_norm, existing_compact, token_index)
              /\ S_BancoBilbao \notin RefNames(db_json) =>
                    /\ ~Rule1(cand, existing_norm, existing_compact, token_index)
                    /\ ~Rule2(cand, existing_norm, existing_compact, token_index)
                    /\ ~Rule3(cand, existing_norm, existing_compact, token_index)
        /\ TickerOf(cand) = S_BBVA_MC =>
              /\ ret = TRUE
              /\ Rule2(cand, existing_norm, existing_compact, token_index)

\* The long name was matched by its acronym alone
C15_Witness ==
    /\ pc = "done"
    /\ db_json = << [kind |-> "dict", c |-> S_BBVA] >>
    /\ cand = [Name |-> S_BancoBilbao]
    /\ ~Rule1(cand, existing_norm, existing_compact, token_index)
    /\ Rule4(cand, existing_norm, existing_compact, token_index)
    /\ ret = TRUE

\* C16: row_exists returns TRUE or FALSE and raises nothing, for every
\* candidate row and every index: a name or a ticker that is empty or
\* missing, a ticker that starts with a separator, an empty index.
C16_ChainTotal ==
    pc = "done" => (exc = "none" /\ ret \in BOOLEAN)

\* A row without a name whose ticker starts with a separator was decided
\* against an empty index, past the tests in front of the three subscripts
C16_Witness ==
    /\ pc = "done"
    /\ db_json = << >>
    /\ token_index = << >>
    /\ cand = [Symbol |-> S_DotMC]
    /\ strip_suffix(clean_tokens(NameOf(cand))) = << >>
    /\ symbol_base(TickerOf(cand)) = << >>
    /\ exc = "none"
    /\ ret = FALSE

----------------------------------------------------------------------------
(* Claims about the runs (Spec) *)

LastRun == IF log = << >> THEN "none" ELSE log[Len(log)]

\* A refresh run has just ended
AfterRefresh == pc = "idle" /\ LastRun = "refresh"

\* The candidate rows row_exists decides unmatched, in candidate order
Unmatched ==
    LET idx == load_existing_companies(db_json)
    IN  SelectSeq(market_cap_csv.rows,
                  LAMBDA r : ~row_exists(r, idx.existing_norm, idx.existing_compact,
                                         idx.token_index))

\* The annotation columns of the last refresh run
AnnoCols == ExtraCols(anno_read.fieldnames, market_cap_csv.fieldnames)

\* The prior rows of a join key, and the first of them in file order
PriorRowsOf(k) ==
    { p \in 1..Len(anno_read.rows) : row_key(anno_read.rows[p]) = k }

FirstPriorRowOf(k) ==
    anno_read.rows[CHOOSE p \in PriorRowsOf(k) : \A q \in PriorRowsOf(k) : p <= q]

EmptyKey == << << >>, << >> >>

\* C7: a refresh run that follows a refresh run, with the candidate and the
\* reference dataset unchanged and the first run's output as prior file,
\* writes the file it read: same columns, same rows, same cells.
C7_RefreshStable ==
    (AfterRefresh /\ Len(log) >= 2 /\ log[Len(log) - 1] = "refresh")
        => missing_csv = anno_read

\* The second of two refresh runs in a row has carried a note forward
C7_Witness ==
    /\ AfterRefresh /\ Len(log) >= 2 /\ log[Len(log) - 1] = "refresh"
    /\ "Note" \in Range(missing_csv.fieldnames)
    /\ \E k \in 1..Len(missing_csv.rows) : missing_csv.rows[k]["Note"] # << >>
    /\ \E k \in 1..Len(missing_csv.rows) : missing_csv.rows[k]["Note"] = << >>

\* C8 as claimed: after a refresh run, every unmatched candidate row whose
\* join key is the join key of a prior row has that prior row's value in
\* every annotation column, for every join key, also ("", "") (stated for the
\* first prior row of each join key).
C8_KeyedRowsInherit ==
    AfterRefresh =>
        LET unmatched == Unmatched
        IN
        /\ Len(missing_csv.rows) = Len(unmatched)
        /\ \A j \in 1..Len(unmatched) :
             LET k == row_key(unmatched[j])
             IN  PriorRowsOf(k) # {} =>
                   \A col \in Range(AnnoCols) :
                      missing_csv.rows[j][col] = RowGet(FirstPriorRowOf(k), col)

\* C8 as amended: after a refresh run, every unmatched candidate row whose
\* join key is not ("", "") and is the join key of a prior row has, in every
\* annotation column, the value of the first prior row with that join key,
\* also when one of the two parts of the key is empty; a row whose join key
\* is ("", "") inherits nothing and has "" in every annotation column.
C8_KeyedRowsInheritUnlessEmptyKey ==
    AfterRefresh =>
        LET unmatched == Unmatched
        IN
        /\ Len(missing_csv.rows) = Len(unmatched)
        /\ \A j \in 1..Len(unmatched) :
             LET k == row_key(unmatched[j])
             IN  \A col \in Range(AnnoCols) :
                   /\ (k # EmptyKey /\ PriorRowsOf(k) # {})
                        => missing_csv.rows[j][col] = RowGet(FirstPriorRowOf(k), col)
                   /\ k = EmptyKey => missing_csv.rows[j][col] = << >>

\* A refresh run has carried a note to a row with an empty NormalizedKey, has
\* met two prior rows of one join key with different notes, and has left a
\* row of join key ("", "") without the note its prior row had
C8_Witness ==
    /\ AfterRefresh
    /\ "Note" \in Range(AnnoCols)
    /\ Len(missing_csv.rows) = Len(Unmatched)
    /\ \E j \in 1..Len(Unmatched) :
         LET k == row_key(Unmatched[j])
         IN  /\ k[1] = << >> /\ k[2] # << >>
             /\ missing_csv.rows[j]["Note"] # << >>
    /\ \E j \in 1..Len(Unmatched) :
         LET k == row_key(Unmatched[j])
         IN  /\ k = EmptyKey
             /\ \E p \in PriorRowsOf(k) : RowGet(anno_read.rows[p], "Note") # << >>
             /\ missing_csv.rows[j]["Note"] = << >>

\* The cells of a row in the given columns
Project(row, fieldnames) == [f \in Range(fieldnames) |-> RowGet(row, f)]

\* C9: the rows a refresh run writes are, in the columns of the candidate
\* file, the rows the primary run writes for the same candidate and reference
\* datasets, in the same order, whatever the prior file holds.
C9_RefreshSelectsPrimarySubset ==
    AfterRefresh =>
        LET primary == compare_main(db_json, market_cap_csv)
        IN  /\ Len(missing_csv.rows) = Len(primary.rows)
            /\ \A j \in 1..Len(primary.rows) :
                 Project(missing_csv.rows[j], market_cap_csv.fieldnames)
                     = primary.rows[j]

\* A refresh run has dropped a candidate row that is matched now and had a
\* note in the prior file, and has written another row
C9_Witness ==
    /\ AfterRefresh
    /\ missing_csv.rows # << >>
    /\ \E i \in 1..Len(market_cap_csv.rows) :
         LET r == market_cap_csv.rows[i]
         IN  /\ \A j \in 1..Len(Unmatched) : Unmatched[j] # r
             /\ \E p \in PriorRowsOf(row_key(r)) :
                  RowGet(anno_read.rows[p], "Note") # << >>

----------------------------------------------------------------------------
(* Claims about the workers (SpecPar) *)

\* What the sequential run decides for a row: row_exists against the index
\* load_existing_companies builds from db_json
SequentialOutcome(row) ==
    LET idx == load_existing_companies(db_json)
    IN  row_exists(row, idx.existing_norm, idx.existing_compact, idx.token_index)

\* C11: however the steps of the workers interleave, with no lock held, a
\* worker that has finished has decided its row as the sequential run
\* decides it.
C11_ParallelAsSequential ==
    pc = "par_run" =>
        \A w \in Workers :
            w_pc[w] = "done" => w_ret[w] = SequentialOutcome(w_row[w])

\* A worker went through the loop of rule 5 with a key token the index
\* lacks and another worker then decided the row named by that token
C11_Witness ==
    /\ pc = "par_run"
    /\ w_row[1] = [Name |-> S_GeneraliAlpha]
    /\ w_row[2] = [Name |-> S_Alpha]
    /\ w_pc[1] = "rule5" /\ w_keys[1] = << >>
    /\ w_pc[2] = "done" /\ w_ret[2] = FALSE

----------------------------------------------------------------------------
(* Claims about strip_suffix (SpecStrip) *)

\* A suffix can be taken from the end of t, and again from what is left,
\* until no token is left
RECURSIVE FullyStrippable(_)
FullyStrippable(t) ==
    \/ t = << >>
    \/ /\ t # << >>
       /\ \/ t[Len(t)] \in SUFFIX_TOKENS /\ FullyStrippable(SubSeq(t, 1, Len(t) - 1))
          \/ \E i \in 1..Len(SUFFIX_PATTERNS) :
                /\ EndsWith(t, SUFFIX_PATTERNS[i])
                /\ FullyStrippable(SubSeq(t, 1, Len(t) - Len(SUFFIX_PATTERNS[i])))

\* C12: strip_suffix is idempotent: applied to its own result it returns
\* that result, also when the result is the unstripped sequence of a name
\* made of legal suffixes only.
C12_StripIdempotent ==
    pc = "restripped" => strip_again = strip_out

\* strip_suffix has been applied to the tokens of "Group S.A.", which it
\* returns unstripped, and to what it returned
C12_Witness ==
    /\ pc = "restripped"
    /\ strip_in = <<T_group, T_s, T_a>>
    /\ strip_out = strip_in
    /\ strip_again = strip_out

\* C13: strip_suffix returns a non-empty sequence for a non-empty one, and
\* the sequence itself when its suffixes are all there is of it.
C13_StripNeverEmpties ==
    pc \in {"stripped", "restripped"} =>
        /\ strip_in # << >> => strip_out # << >>
        /\ FullyStrippable(strip_in) => strip_out = strip_in

\* strip_suffix has returned the three tokens of "Holding S.A." unstripped
C13_Witness ==
    /\ pc = "stripped"
    /\ strip_in = <<T_holding, T_s, T_a>>
    /\ strip_out = strip_in

\* A primary run has just ended
AfterCompare == pc = "idle" /\ LastRun = "compare"

\* Decided unmatched by row_exists against the index of db_json
IsUnmatched(r) ==
    LET idx == load_existing_companies(db_json)
    IN  ~row_exists(r, idx.existing_norm, idx.existing_compact, idx.token_index)

\* C17: in the loop of the primary run matched + len(missing) is the number
\* of rows processed so far, the rows in missing are the processed rows that
\* were decided unmatched, once each and in order; after the pass the sum is
\* the number of candidate rows, and the file written has len(missing) rows.
C17_Conservation ==
    /\ pc = "compare" =>
          LET done == SubSeq(market_cap_csv.rows, 1, row_i - 1)
              idx  == load_existing_companies(db_json)
              out  == [k \in 1..Len(done) |->
                         ~row_exists(done[k], idx.existing_norm,
                                     idx.existing_compact, idx.token_index)]
              outs == { k \in 1..Len(done) : out[k] }
          IN  /\ row_i - 1 <= Len(market_cap_csv.rows)
              /\ matched + Len(missing) = row_i - 1
              /\ missing = PickFrom(done, outs)
              /\ matched = Len(done) - Cardinality(outs)
    /\ AfterCompare =>
          /\ matched + Len(missing) = Len(market_cap_csv.rows)
          /\ Len(missing_csv.rows) = Len(missing)

\* A pass over two rows has ended with one counted and one in missing
C17_Witness ==
    /\ pc = "compare"
    /\ row_i = 3 /\ Len(market_cap_csv.rows) = 2
    /\ matched = 1 /\ Len(missing) = 1

\* The lines of the candidate file whose rows are decided unmatched
RECURSIVE UnmatchedLines(_)
UnmatchedLines(n) ==
    IF n = 0 THEN << >>
    ELSE IF IsUnmatched(market_cap_csv.rows[n])
         THEN Append(UnmatchedLines(n - 1), market_cap_csv.lines[n])
         ELSE UnmatchedLines(n - 1)

\* C18: the file the primary run writes has the header of the candidate
\* file and, for every candidate line decided unmatched, in candidate order,
\* one row that has in every column the cell the line has in that column.
C18_OutputVerbatim ==
    AfterCompare =>
        LET kept == UnmatchedLines(Len(market_cap_csv.rows))
        IN  /\ missing_csv.fieldnames = market_cap_csv.fieldnames
            /\ Len(missing_csv.rows) = Len(kept)
            /\ \A k \in 1..Len(kept) :
                 \A j \in 1..Len(missing_csv.fieldnames) :
                    missing_csv.rows[k][missing_csv.fieldnames[j]] = RawCell(kept[k], j)

\* The columns of the refresh output that are no columns of the candidate
OutAnnoCols ==
    SelectSeq(missing_csv.fieldnames,
              LAMBDA c : c \notin Range(market_cap_csv.fieldnames))

\* C19: after a refresh run, an unmatched candidate row whose join key no
\* row of the prior file has holds "" in every annotation column; when
\* there was no prior file the output has the columns of the candidate only.
C19_NewRowsGetEmptyAnnotations ==
    AfterRefresh =>
        LET unmatched == Unmatched
        IN  /\ Len(missing_csv.rows) = Len(unmatched)
            /\ \A j \in 1..Len(unmatched) :
                 PriorRowsOf(row_key(unmatched[j])) = {} =>
                    \A col \in Range(OutAnnoCols) : missing_csv.rows[j][col] = << >>
            /\ ~anno_read.exists =>
                 missing_csv.fieldnames = market_cap_csv.fieldnames

\* A refresh run has written a row that inherited a note and a row of a key
\* the prior file lacks, with the NormalizedKey of a prior row and no note
C19_Witness ==
    /\ AfterRefresh
    /\ "Note" \in Range(OutAnnoCols)
    /\ Len(missing_csv.rows) = 2
    /\ missing_csv.rows[1]["Note"] # << >>
    /\ LET k == row_key(missing_csv.rows[2])
       IN  /\ PriorRowsOf(k) = {}
           /\ \E p \in 1..Len(anno_read.rows) :
                 /\ row_key(anno_read.rows[p])[1] = k[1]
                 /\ RowGet(anno_read.rows[p], "Note") # << >>
    /\ missing_csv.rows[2]["Note"] = << >>

\* The elements of a sequence in the order of their first occurrence
RECURSIVE KeepFirst(_)
KeepFirst(q) ==
    IF q = << >> THEN << >>
    ELSE LET front == SubSeq(q, 1, Len(q) - 1)
         IN  IF q[Len(q)] \in Range(front) THEN KeepFirst(front)
             ELSE Append(KeepFirst(front), q[Len(q)])

NoRepeat(q) == \A i, j \in 1..Len(q) : q[i] = q[j] => i = j

\* C20 as claimed: the header of the refresh output is the header of the
\* candidate file followed by the columns of the prior file that are no
\* candidate columns, in prior-file order, and lists no column twice.
C20_ColumnOrder ==
    AfterRefresh =>
        /\ missing_csv.fieldnames =
              market_cap_csv.fieldnames
              \o KeepFirst(SelectSeq(anno_read.fieldnames,
                      LAMBDA c : c \notin Range(market_cap_csv.fieldnames)))
        /\ NoRepeat(missing_csv.fieldnames)

\* C20 as amended: the header of the refresh output is the header of the
\* candidate file as it stands, a repeated name repeated, followed by the
\* named columns of the prior file that are no candidate columns, each once,
\* in the order of their first occurrence; a prior column without a name is
\* left out.
C20_ColumnOrderNamedOnce ==
    AfterRefresh =>
        LET anno == KeepFirst(SelectSeq(anno_read.fieldnames,
                        LAMBDA c : c # "" /\ c \notin Range(market_cap_csv.fieldnames)))
        IN  /\ missing_csv.fieldnames = market_cap_csv.fieldnames \o anno
            /\ OutAnnoCols = anno
            /\ NoRepeat(OutAnnoCols)
            /\ "" \notin Range(OutAnnoCols)

\* A refresh run has read a prior file that names a column twice, has a
\* column without a name and lists candidate columns among the others
C20_Witness ==
    /\ AfterRefresh
    /\ ~NoRepeat(anno_read.fieldnames)
    /\ "" \in Range(anno_read.fieldnames)
    /\ anno_read.fieldnames[1] = "Note"
    /\ missing_csv.fieldnames = market_cap_csv.fieldnames \o <<"Note", "Owner">>
    /\ missing_csv.rows # << >>

----------------------------------------------------------------------------
(* Claims about symbol_base (SpecSym) *)

SymSeparators == { ".", ":", "/" } \cup WHITESPACE

\* C21: the SymbolBase of the refresh join key is, for every ticker, the
\* trimmed ticker cut at the leftmost of the characters ".", ":", "/" and
\* whitespace, then cut at the first "-", then uppercased; it holds none of
\* those separators; and it is, case apart, the symbol_base of row_exists.
C21_RefreshSymbolBase ==
    pc = "sym_keyed" =>
        /\ sym_refresh
              = UpperStr(Strip(Before(Before(Strip(sym_in), SymSeparators), {"-"})))
        /\ \A k \in 1..Len(sym_refresh) : sym_refresh[k] \notin SymSeparators
        /\ sym_refresh = UpperStr(sym_compare)

----------------------------------------------------------------------------
(* Claims about rule 5 and the chain of rules (SpecRules) *)

\* The specific tokens of a row: the stripped tokens of its name that have
\* five characters or more and are neither generic words nor stopwords
SpecificTokens(row) ==
    { t \in Range(strip_suffix(clean_tokens(RowGet(row, "Name")))) :
        Len(t) >= 5 /\ t \notin GENERIC_TOKENS /\ t \notin STOPWORDS }

\* The NormalizedKeys the specific tokens of a row reach in the index
KeysReached(row, ti) ==
    UNION { ti[t] : t \in SpecificTokens(row) \cap DOMAIN ti }

\* None of the rules 1 to 4 fires on the row just decided
NoEarlierRule ==
    /\ ~Rule1(cand, existing_norm, existing_compact, token_index)
    /\ ~Rule2(cand, existing_norm, existing_compact, token_index)
    /\ ~Rule3(cand, existing_norm, existing_compact, token_index)
    /\ ~Rule4(cand, existing_norm, existing_compact, token_index)

\* C22: rule 5 fires only when the specific tokens of the candidate reach
\* exactly one NormalizedKey of the reference dataset; when they reach two
\* or more keys, or none, rule 5 does not fire and a row no earlier rule
\* matches is unmatched; the keys rule 5 collects are keys the specific
\* tokens reach, so a generic token, a stopword or a token shorter than
\* five characters contributes none.
C22_Rule5OnlyOnUniqueKey ==
    (pc = "done" /\ exc = "none") =>
        LET reached == KeysReached(cand, token_index)
        IN  /\ Rule5(cand, existing_norm, existing_compact, token_index)
                  => (Cardinality(reached) = 1 /\ reached \subseteq existing_norm)
            /\ Cardinality(reached) # 1
                  => ~Rule5(cand, existing_norm, existing_compact, token_index)
            /\ (NoEarlierRule /\ Cardinality(reached) # 1) => ret = FALSE
            /\ Rule5Run(cand, token_index).candidates \subseteq reached

\* Rule 5 alone has matched a row whose name has a token that is in the
\* index with a key the specific tokens do not reach, and is generic
C22_Witness ==
    /\ pc = "done" /\ exc = "none" /\ ret = TRUE /\ NoEarlierRule
    /\ \E t \in Range(strip_suffix(clean_tokens(RowGet(cand, "Name")))) :
         /\ t \in GENERIC_TOKENS
         /\ t \in DOMAIN token_index
         /\ ~(token_index[t] \subseteq KeysReached(cand, token_index))

\* The rules that fire on a row, each evaluated on its own
RulesFiring(row, en, ec, ti) ==
    { k \in 1..5 :
        \/ k = 1 /\ Rule1(row, en, ec, ti)
        \/ k = 2 /\ Rule2(row, en, ec, ti)
        \/ k = 3 /\ Rule3(row, en, ec, ti)
        \/ k = 4 /\ Rule4(row, en, ec, ti)
        \/ k = 5 /\ Rule5(row, en, ec, ti) }

\* C23: row_exists returns True if and only if at least one of the five
\* rules fires on the candidate, and False exactly when none fires: the
\* chain with its early returns decides as the five rules evaluated
\* independently of one another do.
C23_MatchedIffSomeRuleFires ==
    pc = "done" =>
        /\ exc = "none"
        /\ ret = (RulesFiring(cand, existing_norm, existing_compact, token_index) # {})

\* row_exists has returned True at rule 2 for a row on which a later rule
\* fires as well, and rule 1 does not
C23_Witness ==
    /\ pc = "done" /\ ret = TRUE
    /\ LET firing == RulesFiring(cand, existing_norm, existing_compact, token_index)
       IN  1 \notin firing /\ 2 \in firing /\ firing \cap {3, 4, 5} # {}

\* The acronym of the row just decided
CandAcronym == acronym(clean_tokens(RowGet(cand, "Name")))

\* C24: for a candidate whose acronym has fewer than three characters rule 4
\* does not fire, also when the acronym is a NormalizedKey of the reference
\* dataset or a token of the index; a row no other rule matches is unmatched.
C24_ShortAcronymNeverMatches ==
    (pc = "done" /\ Len(CandAcronym) < 3) =>
        /\ ~Rule4(cand, existing_norm, existing_compact, token_index)
        /\ RulesFiring(cand, existing_norm, existing_compact, token_index) \ {4} = {}
              => ret = FALSE

\* A row is unmatched whose acronym of two characters is a NormalizedKey and
\* a token of the index
C24_Witness ==
    /\ pc = "done" /\ ret = FALSE
    /\ Len(CandAcronym) = 2
    /\ CandAcronym \in existing_norm
    /\ CandAcronym \in DOMAIN token_index

----------------------------------------------------------------------------
(* Claims about the index (SpecRules) *)

\* The space-separated tokens of a NormalizedKey
TokensOf(k) == Range(SplitSpace(k, << >>))

\* A NormalizedKey with its spaces removed
WithoutSpaces(k) == SelectSeq(k, LAMBDA c : c # " ")

\* C25: after load_existing_companies, for every reference dataset, a key k
\* is in token_index[t] if and only if k is in existing_norm and t is one of
\* the space-separated tokens of k, and existing_compact is the set of the
\* keys of existing_norm with their spaces removed.
C25_IndexConsistent ==
    pc = "match" =>
        /\ \A t \in DOMAIN token_index : \A k \in token_index[t] :
              k \in existing_norm /\ t \in TokensOf(k)
        /\ \A k \in existing_norm : \A t \in TokensOf(k) :
              t \in DOMAIN token_index /\ k \in token_index[t]
        /\ existing_compact = { WithoutSpaces(k) : k \in existing_norm }

\* The index is built from a dataset in which a name ends with a legal
\* suffix, a key has several tokens and a token names several keys
C25_Witness ==
    /\ pc = "match"
    /\ \E i \in 1..Len(db_json) :
         /\ HasName(db_json[i])
         /\ strip_suffix(clean_tokens(db_json[i].c)) # clean_tokens(db_json[i].c)
    /\ \E k \in existing_norm : Cardinality(TokensOf(k)) >= 2
    /\ \E t \in DOMAIN token_index : Cardinality(token_index[t]) >= 2

----------------------------------------------------------------------------
(* Claims about the loop of strip_suffix (SpecLoop) *)

\* C26: strip_suffix returns on every token sequence; the passes of its
\* loop that remove tokens are at most as many as the tokens handed in,
\* because every pass after which the loop goes on has made t shorter by at
\* least one token.  (What it returns is what strip_suffix is modelled to
\* return in one step.)
C26_StripTerminates ==
    /\ [](pc \in {"strip_while", "strip_exit", "strip_returned"}
            => Len(strip_t) + strip_iters <= Len(strip_in))
    /\ [](pc = "strip_returned" => strip_out = strip_suffix(strip_in))
    /\ [][(pc = "strip_while" /\ pc' = "strip_while")
            => Len(strip_t') < Len(strip_t)]_vars
    /\ <>(pc = "strip_returned")

\* strip_suffix has returned the three tokens handed in after two passes
\* that removed them all, one of the passes a pattern of two tokens
C26_Witness ==
    /\ pc = "strip_returned"
    /\ strip_iters = 2
    /\ Len(strip_in) = 3
    /\ strip_out = strip_in

----------------------------------------------------------------------------
(* Claims about the loop of rule 5 (SpecRules) *)

\* key_tokens of the row just decided
CandKeyTokens == KeyTokens(strip_suffix(clean_tokens(RowGet(cand, "Name"))))

\* The sequence q in every order
Reorderings(q) ==
    { [i \in 1..Len(q) |-> q[f[i]]] : f \in Permutations(1..Len(q)) }

\* The union of the index entries of all the tokens of q
FullUnion(q, ti) == UNION { ti[q[i]] : i \in { j \in 1..Len(q) : q[j] \in DOMAIN ti } }

\* C27: rule 5 fires if and only if the union of the index entries of all
\* the key tokens of the candidate has exactly one element, in whatever
\* order the loop reads the tokens and although the loop is left as soon as
\* more than five keys are collected.
C27_BailOutKeepsOutcome ==
    (pc = "done" /\ exc = "none") =>
        LET one == Cardinality(FullUnion(CandKeyTokens, token_index)) = 1
        IN  /\ Rule5(cand, existing_norm, existing_compact, token_index) <=> one
            /\ \A q \in Reorderings(CandKeyTokens) :
                  (Cardinality(KeyTokenLoop(q, {}, token_index).candidates) = 1) <=> one

\* The loop of rule 5 was left with key tokens still unread, and in another
\* order of the tokens the first token read does not end the loop
C27_Witness ==
    /\ pc = "done" /\ exc = "none" /\ NoEarlierRule
    /\ Len(CandKeyTokens) >= 2
    /\ CandKeyTokens[1] \in DOMAIN token_index
    /\ Cardinality(token_index[CandKeyTokens[1]]) > 5
    /\ CandKeyTokens[2] \notin DOMAIN token_index

----------------------------------------------------------------------------
(* Claims about growing reference datasets (SpecRules) *)

\* The index load_existing_companies builds from each reference dataset
IndexOf == [data \in RuleDatasets |-> load_existing_companies(data)]

\* The reference datasets that contain all records of db_json
LargerDatasets == { data \in RuleDatasets : Range(db_json) \subseteq Range(data) }

\* row_exists on the row just decided against the index of another dataset
MatchedAgainst(data) ==
    row_exists(cand, IndexOf[data].existing_norm, IndexOf[data].existing_compact,
               IndexOf[data].token_index)

\* C28: a candidate that row_exists matches against the reference dataset
\* through one of the rules 1 to 4 is matched against every reference
\* dataset that contains all records of that dataset.
C28_EarlyRulesMonotone ==
    (/\ pc = "done" /\ exc = "none"
     /\ RulesFiring(cand, existing_norm, existing_compact, token_index)
           \cap {1, 2, 3, 4} # {})
        => \A data \in LargerDatasets : MatchedAgainst(data)

\* A row matched by rule 3 and by no other of the rules 1 to 4 is decided
\* against a dataset that has a larger dataset with another reference for
\* the token
C28_Witness ==
    /\ pc = "done" /\ ret = TRUE
    /\ RulesFiring(cand, existing_norm, existing_compact, token_index) \cap {1, 2, 3, 4}
         = {3}
    /\ \E data \in LargerDatasets :
         /\ Len(data) > Len(db_json)
         /\ \E t \in DOMAIN token_index :
              IndexOf[data].token_index[t] # token_index[t]
         /\ MatchedAgainst(data)

----------------------------------------------------------------------------
(* Claims about the merge of the refresh run (Spec) *)

\* The join keys that several rows of the prior file have
SharedPriorKeys ==
    { k \in { row_key(anno_read.rows[p]) : p \in 1..Len(anno_read.rows) } :
        Cardinality(PriorRowsOf(k)) >= 2 }

\* C29 as claimed: when several rows of the prior file have one join key,
\* every unmatched candidate row with that join key has, in every annotation
\* column, the value of the first of those rows in file order, for every
\* join key, also ("", "").
C29_FirstPriorRowWins ==
    AfterRefresh =>
        LET unmatched == Unmatched
        IN  /\ Len(missing_csv.rows) = Len(unmatched)
            /\ \A k \in SharedPriorKeys : \A j \in 1..Len(unmatched) :
                  row_key(unmatched[j]) = k =>
                    \A col \in Range(AnnoCols) :
                       missing_csv.rows[j][col] = RowGet(FirstPriorRowOf(k), col)

\* C29 as amended: when several rows of the prior file have one join key
\* other than ("", ""), every unmatched candidate row with that join key
\* has, in every annotation column, the value of the first of those rows in
\* file order, so all candidate rows of the key have the same values; prior
\* rows of join key ("", "") carry nothing forward.
C29_FirstPriorRowWinsUnlessEmptyKey ==
    AfterRefresh =>
        LET unmatched == Unmatched
        IN  /\ Len(missing_csv.rows) = Len(unmatched)
            /\ \A k \in SharedPriorKeys : \A j \in 1..Len(unmatched) :
                  row_key(unmatched[j]) = k =>
                    \A col \in Range(AnnoCols) :
                       missing_csv.rows[j][col]
                         = IF k = EmptyKey THEN << >>
                           ELSE RowGet(FirstPriorRowOf(k), col)

\* Two prior rows of one join key have different notes, and two unmatched
\* candidate rows of that join key both have the note of the first
C29_Witness ==
    /\ AfterRefresh
    /\ "Note" \in Range(AnnoCols)
    /\ Len(missing_csv.rows) = Len(Unmatched)
    /\ \E k \in SharedPriorKeys :
         /\ k # EmptyKey
         /\ \E p, q \in PriorRowsOf(k) :
              /\ p < q
              /\ RowGet(anno_read.rows[p], "Note") # << >>
              /\ RowGet(anno_read.rows[q], "Note") # RowGet(anno_read.rows[p], "Note")
         /\ \E i, j \in 1..Len(Unmatched) :
              /\ i < j
              /\ row_key(Unmatched[i]) = k /\ row_key(Unmatched[j]) = k
              /\ missing_csv.rows[i]["Note"] = RowGet(FirstPriorRowOf(k), "Note")
              /\ missing_csv.rows[j]["Note"] = RowGet(FirstPriorRowOf(k), "Note")

\* C30: after a refresh run every row written has, in every column of the
\* candidate file, the cell its candidate line has in that column, also when
\* a prior row of the same join key has another value in a column of that
\* name; no annotation column has the name of a candidate column.
C30_BaseColumnsUntouched ==
    AfterRefresh =>
        LET kept == UnmatchedLines(Len(market_cap_csv.rows))
        IN  /\ Len(missing_csv.rows) = Len(kept)
            /\ \A k \in 1..Len(kept) :
                  \A j \in 1..Len(market_cap_csv.fieldnames) :
                     /\ missing_csv.fieldnames[j] = market_cap_csv.fieldnames[j]
                     /\ missing_csv.rows[k][market_cap_csv.fieldnames[j]]
                          = RawCell(kept[k], j)
            /\ Range(AnnoCols) \cap Range(market_cap_csv.fieldnames) = {}

====
